---- MODULE Spec2Model ----
(***************************************************************************)
(* Model of main.py (BotBroAIPost): the per-chat conversation state        *)
(* machine (start, handle_document, handle_text, on_button), the scheduler *)
(* helpers (clear_chat_jobs, schedule_daily_jobs, scheduled_post) and the  *)
(* publish pipeline (publish_now and the collaborators it calls).          *)
(*                                                                         *)
(* Texts are sequences of one-character strings, so that strip, split,     *)
(* int() and the "%02d:%02d" formatting are computed as the code computes  *)
(* them.  A Python value that may be None is a record [some, v].           *)
(***************************************************************************)
EXTENDS Integers, Sequences, FiniteSets, TLC

(***************************************************************************)
(* Optional values (Python None / a string).                               *)
(***************************************************************************)
None == [some |-> FALSE, v |-> << >>]
Some(t) == [some |-> TRUE, v |-> t]
\* Python truthiness of an optional string: None and "" are falsy.
Truthy(x) == x.some /\ x.v # << >>

(***************************************************************************)
(* Text helpers: str.strip, str.split(":"), int(), f"{n:02d}".             *)
(***************************************************************************)
DigitChars == <<"0", "1", "2", "3", "4", "5", "6", "7", "8", "9">>
IsDigit(c) == \E i \in 1..10 : DigitChars[i] = c
DigitVal(c) == (CHOOSE i \in 1..10 : DigitChars[i] = c) - 1

\* The whitespace str.strip removes.
IsSpace(c) == c \in {" ", "\n", "\t"}

RECURSIVE LStrip(_)
LStrip(s) == IF s # << >> /\ IsSpace(Head(s)) THEN LStrip(Tail(s)) ELSE s

RECURSIVE RStrip(_)
RStrip(s) ==
    IF s # << >> /\ IsSpace(s[Len(s)]) THEN RStrip(SubSeq(s, 1, Len(s) - 1)) ELSE s

Strip(s) == RStrip(LStrip(s))

\* text.split(sep): the pieces between the occurrences of sep.
RECURSIVE SplitFrom(_, _, _)
SplitFrom(s, sep, cur) ==
    IF s = << >> THEN <<cur>>
    ELSE IF Head(s) = sep THEN <<cur>> \o SplitFrom(Tail(s), sep, << >>)
    ELSE SplitFrom(Tail(s), sep, Append(cur, Head(s)))

Split(s, sep) == SplitFrom(s, sep, << >>)

RECURSIVE DigitsValue(_, _)
DigitsValue(s, acc) ==
    IF s = << >> THEN acc
    ELSE IF Head(s) = "_" THEN DigitsValue(Tail(s), acc)
    ELSE DigitsValue(Tail(s), 10 * acc + DigitVal(Head(s)))

\* The digit part of an integer literal: digits, single underscores between them.
IsDigitBody(b) ==
    /\ b # << >>
    /\ IsDigit(b[1]) /\ IsDigit(b[Len(b)])
    /\ \A i \in 1..Len(b) : IsDigit(b[i]) \/ b[i] = "_"
    /\ \A i \in 1..(Len(b) - 1) : ~(b[i] = "_" /\ b[i + 1] = "_")

\* int(s): surrounding blanks dropped, an optional sign, then the digits.
\* ok = FALSE stands for ValueError.
IntParse(s) ==
    LET t == Strip(s)
        signed == t # << >> /\ Head(t) \in {"+", "-"}
        body == IF signed THEN Tail(t) ELSE t
    IN  IF IsDigitBody(body)
        THEN [ok |-> TRUE,
              val |-> IF signed /\ Head(t) = "-"
                      THEN 0 - DigitsValue(body, 0) ELSE DigitsValue(body, 0)]
        ELSE [ok |-> FALSE, val |-> 0]

\* f"{n:02d}" for 0 <= n <= 99.
Fmt02d(n) == <<DigitChars[(n \div 10) + 1], DigitChars[(n % 10) + 1]>>

\* str.lower, on ASCII letters.
LowerChar(c) ==
    CASE c = "A" -> "a" [] c = "B" -> "b" [] c = "C" -> "c" [] c = "D" -> "d"
      [] c = "E" -> "e" [] c = "F" -> "f" [] c = "G" -> "g" [] c = "H" -> "h"
      [] c = "I" -> "i" [] c = "J" -> "j" [] c = "K" -> "k" [] c = "L" -> "l"
      [] c = "M" -> "m" [] c = "N" -> "n" [] c = "O" -> "o" [] c = "P" -> "p"
      [] c = "Q" -> "q" [] c = "R" -> "r" [] c = "S" -> "s" [] c = "T" -> "t"
      [] c = "U" -> "u" [] c = "V" -> "v" [] c = "W" -> "w" [] c = "X" -> "x"
      [] c = "Y" -> "y" [] c = "Z" -> "z"
      [] OTHER -> c
Lower(s) == [i \in 1..Len(s) |-> LowerChar(s[i])]

(***************************************************************************)
(* Credential documents (the parsed JSON of an uploaded file) and the      *)
(* OAuth helpers.  A JSON object member is [key, val]: key says whether    *)
(* the member exists, val is its value (None for JSON null).               *)
(***************************************************************************)
Txt_cid == <<"c", "i", "d">>
Txt_sec == <<"s", "e", "c">>
Txt_uri == <<"u", "r", "i">>
OAUTH_TOKEN_URI_DEFAULT == <<"o", "a", "u", "t", "h", "2">>

Missing == [key |-> FALSE, val |-> None]
Null == [key |-> TRUE, val |-> None]
Str(t) == [key |-> TRUE, val |-> Some(t)]

\* A member "installed"/"web" of the document: some = the member exists,
\* extra = the block holds members other than the three OAuth ones.
NoBlock ==
    [some |-> FALSE, client_id |-> Missing, client_secret |-> Missing,
     token_uri |-> Missing, extra |-> FALSE]
Block(id, secret, uri) ==
    [some |-> TRUE, client_id |-> id, client_secret |-> secret,
     token_uri |-> uri, extra |-> TRUE]

EmptyJson == [installed |-> NoBlock, web |-> NoBlock]
NoJson == [some |-> FALSE, v |-> EmptyJson]

\* Python truthiness of oauth_json.get(k): a missing member and {} are falsy.
BlockTruthy(b) ==
    b.some /\ (b.client_id.key \/ b.client_secret.key \/ b.token_uri.key \/ b.extra)
JsonTruthy(j) == j.some /\ (j.v.installed.some \/ j.v.web.some)

\* extract_oauth_fields: ok = FALSE stands for the RuntimeError, err names it.
extract_oauth_fields(oauth_json) ==
    LET block == IF BlockTruthy(oauth_json.installed)
                 THEN oauth_json.installed ELSE oauth_json.web
    IN  IF ~BlockTruthy(block)
        THEN [ok |-> FALSE, err |-> "no_installed_or_web", client_id |-> None,
              client_secret |-> None, token_uri |-> None]
        ELSE IF ~block.client_id.key
        THEN [ok |-> FALSE, err |-> "missing_client_id", client_id |-> None,
              client_secret |-> None, token_uri |-> None]
        ELSE IF ~block.client_secret.key
        THEN [ok |-> FALSE, err |-> "missing_client_secret", client_id |-> None,
              client_secret |-> None, token_uri |-> None]
        ELSE [ok |-> TRUE, err |-> "",
              client_id |-> block.client_id.val,
              client_secret |-> block.client_secret.val,
              token_uri |-> IF block.token_uri.key THEN block.token_uri.val
                            ELSE Some(OAUTH_TOKEN_URI_DEFAULT)]

(***************************************************************************)
(* ChatConfig: the dictionary get_chat creates for a new chat.             *)
(***************************************************************************)
Step(name) == [name |-> name, idx |-> 0]
\* f"await_time_{i}"
AwaitTime(i) == [name |-> "await_time_", idx |-> i]

DefaultChat ==
    [next |-> Step("await_json"),
     oauth_json |-> NoJson,
     refresh_token |-> None,
     drive_folder_id |-> None,
     oauth_client_id |-> None,
     oauth_client_secret |-> None,
     oauth_token_uri |-> Some(OAUTH_TOKEN_URI_DEFAULT),
     save_info |-> TRUE,
     setup_complete |-> FALSE,
     autopost_enabled |-> FALSE,
     autopost_count |-> 0,
     autopost_times |-> << >>]

\* build_services: the credential fields it caches in cfg, and whether it
\* raises (ok = FALSE) instead of returning the two service handles.
build_services(c) ==
    LET idsMissing == ~Truthy(c.oauth_client_id) \/ ~Truthy(c.oauth_client_secret)
        reextract == idsMissing /\ JsonTruthy(c.oauth_json)
        fields == extract_oauth_fields(c.oauth_json.v)
        c2 == IF reextract /\ fields.ok
              THEN [c EXCEPT !.oauth_client_id = fields.client_id,
                             !.oauth_client_secret = fields.client_secret,
                             !.oauth_token_uri = fields.token_uri]
              ELSE c
    IN  [cfg |-> c2,
         ok |-> /\ ~(reextract /\ ~fields.ok)
                /\ Truthy(c2.oauth_client_id)
                /\ Truthy(c2.oauth_client_secret)
                /\ Truthy(c2.refresh_token)]

(***************************************************************************)
(* State.                                                                  *)
(*   cfg    USER_STATE[CHAT], the chat's ChatConfig                        *)
(*   disk   the chat's users/<chat_id>.json as last written                *)
(*   jobs   application.job_queue.jobs(), in registration order            *)
(*   folder the video files of the Drive folder, oldest first              *)
(*   ev     the handler that ran last: its input, the collaborator calls   *)
(*          it made, the replies it sent, what the upload returned         *)
(*   update_queue  application.update_queue, oldest update first           *)
(*   run    the publish_now call followed step by step, NoRun when none is *)
(***************************************************************************)
VARIABLES cfg, disk, jobs, folder, ev, update_queue, run

vars == <<cfg, disk, jobs, folder, ev, update_queue, run>>

CHAT == 1

\* No publish_now call is being followed step by step.
NoRun == [pc |-> "none"]

Reply(kind) == [kind |-> kind]
\* A collaborator call; file is the file id it names, 0 when it names none.
Call(op, file) == [op |-> op, file |-> file]

(***************************************************************************)
(* Scheduler helpers.                                                      *)
(***************************************************************************)
HOUR_MAX == 23
MINUTE_MAX == 59

\* hh, mm = map(int, t.split(":")): ok = FALSE stands for ValueError.
ParseHHMM(t) ==
    LET parts == Split(t, ":")
        hh == IntParse(parts[1])
        mm == IntParse(parts[2])
    IN  IF Len(parts) = 2 /\ hh.ok /\ mm.ok
        THEN [ok |-> TRUE, hh |-> hh.val, mm |-> mm.val]
        ELSE [ok |-> FALSE, hh |-> 0, mm |-> 0]

InDayRange(p) == 0 <= p.hh /\ p.hh <= HOUR_MAX /\ 0 <= p.mm /\ p.mm <= MINUTE_MAX

\* job.schedule_removal() on every job whose data names the chat.
clear_chat_jobs(js, chat_id) ==
    LET Kept(job) == job.chat_id # chat_id IN SelectSeq(js, Kept)

\* Mutant: the first time that fails to parse ends the registration loop.
RECURSIVE run_daily_each_StopAtBad(_, _, _)
run_daily_each_StopAtBad(js, chat_id, times) ==
    IF times = << >> THEN js
    ELSE LET t == Head(times)
             p == ParseHHMM(t)
         IN  IF p.ok /\ InDayRange(p)
             THEN run_daily_each_StopAtBad(
                      Append(js, [chat_id |-> chat_id, t |-> t]), chat_id, Tail(times))
             ELSE js

\* The run_daily loop of schedule_daily_jobs: a time that does not parse, or
\* that datetime.time refuses, is skipped.
RECURSIVE run_daily_each(_, _, _)
run_daily_each(js, chat_id, times) ==
    IF times = << >> THEN js
    ELSE LET t == Head(times)
             p == ParseHHMM(t)
         IN  run_daily_each(
                 IF p.ok /\ InDayRange(p)
                 THEN Append(js, [chat_id |-> chat_id, t |-> t]) ELSE js,
                 chat_id, Tail(times))

\* Mutant: the chat's earlier jobs are not cleared before registering.
schedule_daily_jobs_NoClear(js, chat_id, times) ==
    run_daily_each(js, chat_id, times)

schedule_daily_jobs(js, chat_id, times) ==
    run_daily_each(clear_chat_jobs(js, chat_id), chat_id, times)

ChatJobs(js, chat_id) ==
    LET Bound(job) == job.chat_id = chat_id IN SelectSeq(js, Bound)

(***************************************************************************)
(* Hashtags: TRENDING_TAGS, infer_context_tags and format_hashtags.  A tag *)
(* and a file name are sequences of characters, the hashtag line too.      *)
(***************************************************************************)
Tag_Trending == <<"T", "r", "e", "n", "d", "i", "n", "g">>
Tag_Viral == <<"V", "i", "r", "a", "l">>
Tag_Shorts == <<"S", "h", "o", "r", "t", "s">>
Tag_AI == <<"A", "I">>
Tag_Creative == <<"C", "r", "e", "a", "t", "i", "v", "e">>
Tag_YouTube == <<"Y", "o", "u", "T", "u", "b", "e">>
Tag_Funny == <<"F", "u", "n", "n", "y">>
Tag_Tech == <<"T", "e", "c", "h">>
Tag_Magic == <<"M", "a", "g", "i", "c">>
Tag_Surprise == <<"S", "u", "r", "p", "r", "i", "s", "e">>
TRENDING_TAGS ==
    <<Tag_Trending, Tag_Viral, Tag_Shorts, Tag_AI, Tag_Creative,
      Tag_YouTube, Tag_Funny, Tag_Tech, Tag_Magic, Tag_Surprise>>

Tag_Slime == <<"S", "l", "i", "m", "e">>
Tag_Glitter == <<"G", "l", "i", "t", "t", "e", "r">>
Tag_Kitten == <<"K", "i", "t", "t", "e", "n">>
Tag_Cats == <<"C", "a", "t", "s">>
Tag_PetLovers == <<"P", "e", "t", "L", "o", "v", "e", "r", "s">>
Tag_Ocean == <<"O", "c", "e", "a", "n">>
Tag_Wave == <<"W", "a", "v", "e">>
Tag_Nature == <<"N", "a", "t", "u", "r", "e">>
Tag_Car == <<"C", "a", "r">>
Tag_Automotive == <<"A", "u", "t", "o", "m", "o", "t", "i", "v", "e">>
Tag_Transformation == <<"T", "r", "a", "n", "s", "f", "o", "r", "m", "a", "t", "i", "o", "n">>

\* k in name
Contains(name, k) ==
    \E i \in 0..(Len(name) - Len(k)) : SubSeq(name, i + 1, i + Len(k)) = k

\* The keyword groups of infer_context_tags, in the order they are tested.
KeywordGroups ==
    <<[keys |-> {<<"s", "l", "i", "m", "e">>, <<"g", "l", "i", "t", "t", "e", "r">>, <<"g", "o", "o">>},
       tags |-> <<Tag_Slime, Tag_Glitter>>],
      [keys |-> {<<"c", "a", "t">>, <<"k", "i", "t", "t", "e", "n">>},
       tags |-> <<Tag_Kitten, Tag_Cats, Tag_PetLovers>>],
      [keys |-> {<<"w", "a", "v", "e">>, <<"o", "c", "e", "a", "n">>, <<"s", "e", "a">>, <<"s", "u", "r", "f">>},
       tags |-> <<Tag_Ocean, Tag_Wave, Tag_Nature>>],
      [keys |-> {<<"c", "a", "r">>, <<"a", "u", "t", "o">>, <<"v", "e", "h", "i", "c", "l", "e">>},
       tags |-> <<Tag_Car, Tag_Automotive>>],
      [keys |-> {<<"t", "r", "a", "n", "s", "f", "o", "r", "m">>, <<"m", "o", "r", "p", "h">>, <<"c", "h", "a", "n", "g", "e">>},
       tags |-> <<Tag_Transformation>>]>>

\* The order-preserving de-duplication loop: out so far, tags still to see.
RECURSIVE Dedup(_, _)
Dedup(out, tags) ==
    IF tags = << >> THEN out
    ELSE IF \E i \in 1..Len(out) : out[i] = Head(tags)
    THEN Dedup(out, Tail(tags))
    ELSE Dedup(Append(out, Head(tags)), Tail(tags))

RECURSIVE GroupTags(_, _)
GroupTags(name, gs) ==
    IF gs = << >> THEN << >>
    ELSE (IF \E k \in Head(gs).keys : Contains(name, k) THEN Head(gs).tags ELSE << >>)
         \o GroupTags(name, Tail(gs))

infer_context_tags(filename) == Dedup(<< >>, GroupTags(Lower(filename), KeywordGroups))

HEAD_TAGS == 5
MAX_TOTAL == 10

\* xs[:n] and xs[n:]
Take(xs, n) == SubSeq(xs, 1, IF n < Len(xs) THEN n ELSE Len(xs))
Drop(xs, n) == SubSeq(xs, n + 1, Len(xs))

\* The backfill loop of format_hashtags over the remaining tags.
RECURSIVE Backfill(_, _, _)
Backfill(mixed, rest, max_total) ==
    IF rest = << >> \/ Len(mixed) >= max_total THEN mixed
    ELSE IF \E i \in 1..Len(mixed) : mixed[i] = Head(rest)
    THEN Backfill(mixed, Tail(rest), max_total)
    ELSE Backfill(Append(mixed, Head(rest)), Tail(rest), max_total)

\* t.replace(" ", "")
RemoveSpaces(t) == LET NotSpace(c) == c # " " IN SelectSeq(t, NotSpace)

\* " ".join(f"#{t.replace(' ', '')}" for t in mixed)
RECURSIVE JoinHashtags(_)
JoinHashtags(mixed) ==
    IF mixed = << >> THEN << >>
    ELSE <<"#">> \o RemoveSpaces(Head(mixed))
         \o (IF Len(mixed) > 1 THEN <<" ">> \o JoinHashtags(Tail(mixed)) ELSE << >>)

\* Mutant: the backfill appends a tag that is already in the line.
format_hashtags_NoSkip(trending, contextual, max_total) ==
    JoinHashtags(Take(Take(trending, HEAD_TAGS) \o Take(contextual, HEAD_TAGS)
                      \o Drop(trending, HEAD_TAGS) \o Drop(contextual, HEAD_TAGS),
                      max_total))

format_hashtags(trending, contextual, max_total) ==
    JoinHashtags(Backfill(Take(trending, HEAD_TAGS) \o Take(contextual, HEAD_TAGS),
                          Drop(trending, HEAD_TAGS) \o Drop(contextual, HEAD_TAGS),
                          max_total))

(***************************************************************************)
(* generate_metadata_with_gemini.  A Gemini behaviour g fixes what the     *)
(* generative service answers in one call of the function:                 *)
(*   g.api_key    GOOGLE_API_KEY is set                                    *)
(*   g.upload     "ok" or "error" (genai.upload_file raises)               *)
(*   g.get_file   "ok" or "error" (genai.get_file raises)                  *)
(*   g.active_at  the get_file call that first reports the state ACTIVE    *)
(*   g.generate   "ok", "error" (generate_content raises) or "no_text"     *)
(*                (reading response.text raises)                           *)
(*   g.text       response.text                                            *)
(* The three fixed texts are kept as one piece each.                       *)
(***************************************************************************)
READY_POLLS == 60
TITLE_MAX == 70

DEFAULT_TITLE == <<"AI Magic: Surprising Transformation!">>
DEFAULT_DESC ==
    <<"A stunning AI-powered visual with an unexpected twist that keeps you watching.">>
FALLBACK_DESC == <<"Fallback description.">>

Label_title == <<"t", "i", "t", "l", "e", ":">>
Label_description == <<"d", "e", "s", "c", "r", "i", "p", "t", "i", "o", "n", ":">>

\* str.splitlines for lines ended by "\n": the pieces between the line
\* ends, without an empty piece after a final line end.
SplitLines(text) ==
    LET ends == {i \in 1..Len(text) : text[i] = "\n"}
        stops == ends \cup {Len(text) + 1}
        n == Cardinality(stops)
        stop(k) == IF k = 0 THEN 0
                   ELSE CHOOSE i \in stops : Cardinality({j \in stops : j < i}) = k - 1
        pieces == [k \in 1..n |-> SubSeq(text, stop(k - 1) + 1, stop(k) - 1)]
    IN  IF text = << >> THEN << >>
        ELSE IF text[Len(text)] = "\n" THEN SubSeq(pieces, 1, n - 1)
        ELSE pieces

StartsWith(x, prefix) == Len(x) >= Len(prefix) /\ SubSeq(x, 1, Len(prefix)) = prefix

\* line.split(":", 1)[1].strip(), for a line that holds a ":".
AfterColon(line) ==
    LET i == CHOOSE k \in 1..Len(line) :
                 line[k] = ":" /\ \A j \in 1..(k - 1) : line[j] # ":"
    IN  Strip(SubSeq(line, i + 1, Len(line)))

\* The loop over text.splitlines(): a later labelled line replaces an earlier one.
RECURSIVE ParseLabels(_, _)
ParseLabels(lines, found) ==
    IF lines = << >> THEN found
    ELSE LET line == Head(lines)
             low == Lower(line)
         IN  ParseLabels(Tail(lines),
                 IF StartsWith(low, Label_title)
                 THEN [found EXCEPT !.title = Some(AfterColon(line))]
                 ELSE IF StartsWith(low, Label_description)
                 THEN [found EXCEPT !.desc = Some(AfterColon(line))]
                 ELSE found)

\* The get_file calls made: one before the loop and one per iteration that
\* did not see ACTIVE, READY_POLLS iterations at most.
ReadyPolls(g) == IF g.active_at <= READY_POLLS + 1 THEN g.active_at ELSE READY_POLLS + 1

\* The exception raised inside the try block, "none" when there is none.
GeminiRaises(g) ==
    IF ~g.api_key THEN "no_api_key"
    ELSE IF g.upload = "error" THEN "upload_error"
    ELSE IF g.get_file = "error" THEN "get_file_error"
    ELSE IF g.active_at > READY_POLLS + 1 THEN "not_active"
    ELSE IF g.generate = "error" THEN "generate_error"
    ELSE IF g.generate = "no_text" THEN "text_error"
    ELSE "none"

MetaResult(t, d, n, exc) ==
    [ok |-> TRUE, title |-> t, description |-> d, polls |-> n, raised |-> exc]

\* The try block and its except clause, given the hashtag line: the
\* response parsed into (title, description), or the fallback pair.
MetadataTry(g, hashtags) ==
    LET raised == GeminiRaises(g)
        polls == IF raised \in {"no_api_key", "upload_error"} THEN 0
                 ELSE IF raised = "get_file_error" THEN 1 ELSE ReadyPolls(g)
        found == ParseLabels(SplitLines(Strip(g.text)), [title |-> None, desc |-> None])
        title == IF Truthy(found.title) THEN found.title.v ELSE DEFAULT_TITLE
        desc == IF Truthy(found.desc) THEN found.desc.v ELSE DEFAULT_DESC
    IN  IF raised # "none"
        THEN MetaResult(DEFAULT_TITLE, FALLBACK_DESC \o <<"\n">> \o hashtags,
                        polls, raised)
        ELSE MetaResult(Strip(Take(title, TITLE_MAX)), desc \o <<"\n">> \o hashtags,
                        polls, "none")

\* Mutant: the API key is tested before the try block, so the error escapes.
generate_metadata_with_gemini_KeyOutsideTry(g, filename_hint) ==
    IF ~g.api_key
    THEN [ok |-> FALSE, title |-> << >>, description |-> << >>, polls |-> 0,
          raised |-> "no_api_key"]
    ELSE MetadataTry(g, format_hashtags(TRENDING_TAGS, infer_context_tags(filename_hint),
                                        MAX_TOTAL))

\* ok says that the function returned (no exception escaped it); polls
\* counts the get_file calls, raised names the exception its try block caught.
generate_metadata_with_gemini(g, filename_hint) ==
    MetadataTry(g, format_hashtags(TRENDING_TAGS, infer_context_tags(filename_hint),
                                   MAX_TOTAL))

(***************************************************************************)
(* Publish pipeline.  A collaborator behaviour b fixes what the Drive and  *)
(* YouTube calls of one invocation answer:                                 *)
(*   b.list1, b.download, b.delete, b.list2   "ok" or "error" (the call    *)
(*                                            raises HttpError)            *)
(*   b.upload.exc     the exception next_chunk raises, or "none"           *)
(*   b.upload.needed  the next_chunk call that returns the response        *)
(*   b.upload.id      response.get("id")                                   *)
(***************************************************************************)
UPLOAD_TRIES_MAX == 200

Txt_vid == <<"a", "b", "c", "1", "2", "3">>

\* The polling loop of upload_to_youtube.  Iteration t calls next_chunk and
\* leaves the loop when the call raises, when tries (= t) exceeds the
\* ceiling, or when the call returned the response; the loop ends at the
\* first such iteration.
LoopLeaves(up, t) == up.exc # "none" \/ t > UPLOAD_TRIES_MAX \/ t >= up.needed

UploadLoop(up) ==
    LET t == CHOOSE i \in 1..(UPLOAD_TRIES_MAX + 1) :
                 LoopLeaves(up, i) /\ \A j \in 1..(i - 1) : ~LoopLeaves(up, j)
    IN  IF up.exc # "none" THEN [kind |-> up.exc, polls |-> t]
        ELSE IF t > UPLOAD_TRIES_MAX THEN [kind |-> "did_not_complete", polls |-> t]
        ELSE [kind |-> "response", polls |-> t]

\* Mutant: an exception makes the helper return None instead of "ERR:...".
upload_to_youtube_NoneOnError(up) ==
    LET r == UploadLoop(up)
    IN  IF r.kind = "response" /\ Truthy(up.id)
        THEN [tag |-> "url", video_id |-> up.id.v, reason |-> "",
              polls |-> r.polls, raised |-> "none"]
        ELSE [tag |-> "None", video_id |-> << >>, reason |-> "", polls |-> r.polls,
              raised |-> IF r.kind = "response" THEN "none" ELSE r.kind]

\* upload_to_youtube: tag "url" (the watch URL of video_id), "None", or "ERR"
\* (the "ERR:<reason>" string); polls counts the next_chunk calls and raised
\* names the exception caught ("none" when the loop ended with a response).
upload_to_youtube(up) ==
    LET r == UploadLoop(up)
    IN  IF r.kind = "response"
        THEN IF Truthy(up.id)
             THEN [tag |-> "url", video_id |-> up.id.v, reason |-> "",
                   polls |-> r.polls, raised |-> "none"]
             ELSE [tag |-> "None", video_id |-> << >>, reason |-> "",
                   polls |-> r.polls, raised |-> "none"]
        ELSE [tag |-> "ERR", video_id |-> << >>, polls |-> r.polls, raised |-> r.kind,
              reason |-> IF r.kind = "HttpError_uploadLimitExceeded"
                         THEN "uploadLimitExceeded"
                         ELSE IF r.kind = "HttpError_other" THEN "HttpError"
                         ELSE IF r.kind = "did_not_complete"
                         THEN "Generic did_not_complete"
                         ELSE "Generic"]

\* The names of the files of the folder (the "name" field Drive lists with
\* each id): file 1 is "Slime.MP4", every other file "video.mp4".
File_slime == <<"S", "l", "i", "m", "e", ".", "M", "P", "4">>
File_cat_car == <<"M", "y", " ", "C", "a", "t", " ", "C", "a", "r">>
File_scary == <<"s", "c", "a", "r", "y">>
File_video == <<"v", "i", "d", "e", "o", ".", "m", "p", "4">>
FileName(file) == IF file = 1 THEN File_slime ELSE File_video

\* Gemini behaviours and response texts.
Gemini(api_key, upload, get_file, active_at, generate, text) ==
    [api_key |-> api_key, upload |-> upload, get_file |-> get_file,
     active_at |-> active_at, generate |-> generate, text |-> text]

Text_both == <<"T", "i", "t", "l", "e", ":", " ", "C", "a", "t", "s", "\n", "D", "e", "s", "c", "r", "i", "p", "t", "i", "o", "n", ":", " ", "F", "u", "n">>
Text_title_only == <<"T", "I", "T", "L", "E", ":", " ", " ", "C", "a", "t", "s", " ">>
Text_desc_only == <<"\n", "d", "e", "s", "c", "r", "i", "p", "t", "i", "o", "n", ":", " ", "F", "u", "n", "\n">>
Text_unlabelled == <<"C", "a", "t", "s", " ", "a", "r", "e", " ", "f", "u", "n">>
Text_two_colons == <<"T", "i", "t", "l", "e", ":", " ", "C", "a", "t", "s", ":", " ", "2", "\n", "D", "e", "s", "c", "r", "i", "p", "t", "i", "o", "n", ":">>
Text_title_twice == <<"t", "i", "t", "l", "e", ":", " ", "A", "\n", "n", "o", "t", "e", "\n", "T", "i", "t", "l", "e", ":", " ", "B">>
Text_long_title == Label_title \o [i \in 1..(TITLE_MAX + 1) |-> "a"]
ResponseTexts ==
    {Text_both, Text_title_only, Text_desc_only, Text_unlabelled, Text_two_colons,
     Text_title_twice, Text_long_title, << >>}

Gemini_NoKey == Gemini(FALSE, "ok", "ok", 1, "ok", Text_both)
Gemini_UploadError == Gemini(TRUE, "error", "ok", 1, "ok", Text_both)
Gemini_GetFileError == Gemini(TRUE, "ok", "error", 1, "ok", Text_both)
Gemini_NotActive == Gemini(TRUE, "ok", "ok", READY_POLLS + 2, "ok", Text_both)
Gemini_GenerateError == Gemini(TRUE, "ok", "ok", 1, "error", Text_both)
Gemini_NoText == Gemini(TRUE, "ok", "ok", 1, "no_text", Text_both)
Gemini_Titled == Gemini(TRUE, "ok", "ok", 1, "ok", Text_both)
Gemini_Unlabelled == Gemini(TRUE, "ok", "ok", 1, "ok", Text_unlabelled)

\* The Gemini behaviours explored: every failing step, and every response
\* text with the state ACTIVE first reported by each call in ActiveAts.
ActiveAts == {1, 2, READY_POLLS, READY_POLLS + 1, READY_POLLS + 2}
Geminis ==
    {Gemini_NoKey, Gemini_UploadError, Gemini_GetFileError, Gemini_GenerateError,
     Gemini_NoText}
    \cup { Gemini(TRUE, "ok", "ok", k, "ok", t) : k \in ActiveAts, t \in ResponseTexts }

\* The Gemini behaviours a publish is explored with: one per failing step,
\* one labelled and one unlabelled response.
PipelineGeminis ==
    {Gemini_NoKey, Gemini_UploadError, Gemini_GetFileError, Gemini_NotActive,
     Gemini_GenerateError, Gemini_NoText, Gemini_Titled, Gemini_Unlabelled}

\* generate_metadata_with_gemini tabulated over these behaviours and the
\* names of the files of the folder: what publish_now gets from its call.
Metadata ==
    [g \in PipelineGeminis, f \in {File_slime, File_video} |->
        generate_metadata_with_gemini(g, f)]

NotCalled ==
    [tag |-> "not_called", video_id |-> << >>, reason |-> "", polls |-> 0,
     raised |-> "none"]

\* The result of one publish_now call: the cfg it leaves (build_services may
\* cache credential fields), the folder, the collaborator calls in order
\* and the replies in order, and what upload_to_youtube returned (upload).
Outcome(c, fld, calls, replies, up) ==
    [cfg |-> c, folder |-> fld, calls |-> calls, replies |-> replies, upload |-> up]

\* publish_now from the reply that shows the title on: the file is
\* downloaded and meta is what generate_metadata_with_gemini gave.
PublishWithMeta(c2, fld, file, meta, b, k1, r1) ==
    LET k2 == k1 \o <<Call("generate_metadata", file),
                      [op |-> "upload", file |-> file, meta |-> meta]>>
        r2 == Append(r1, [kind |-> "uploading", title |-> meta.title])
        url_or_err == upload_to_youtube(b.upload)
    IN  IF ~meta.ok
        THEN Outcome(c2, fld, k1 \o <<Call("generate_metadata", file)>>,
                     Append(r1, [kind |-> "publish_error", reason |-> meta.raised]),
                     NotCalled)
        ELSE IF url_or_err.tag = "ERR"
        THEN Outcome(c2, fld, k2,
                     Append(r2, [kind |-> "upload_failed", reason |-> url_or_err.reason]),
                     url_or_err)
        ELSE
        LET fld2 == IF b.delete = "ok" THEN Tail(fld) ELSE fld
            k3 == k2 \o <<Call("delete", file), Call("list_videos", 0)>>
        IN  IF b.list2 = "error"
            THEN Outcome(c2, fld2, k3, Append(r2, Reply("drive_error")), url_or_err)
            ELSE Outcome(c2, fld2, k3,
                         Append(r2, [kind |-> "published",
                                     remaining |-> Len(fld2),
                                     url |-> url_or_err.tag,
                                     video_id |-> url_or_err.video_id]),
                         url_or_err)

\* publish_now from its try block on: the folder id is set.
PublishWithFolder(c, fld, b) ==
    LET sv == build_services(c)
        c2 == sv.cfg
    IN  IF ~sv.ok
        THEN Outcome(c2, fld, << >>, <<[kind |-> "publish_error", reason |-> "oauth_missing"]>>,
                     NotCalled)
        ELSE IF b.list1 = "error"
        THEN Outcome(c2, fld, <<Call("list_first", 0)>>, <<Reply("drive_error")>>, NotCalled)
        ELSE IF fld = << >>
        THEN Outcome(c2, fld, <<Call("list_first", 0)>>, <<Reply("no_videos")>>, NotCalled)
        ELSE
        LET file == Head(fld)
            r1 == <<[kind |-> "analysing", file |-> file]>>
            k1 == <<Call("list_first", 0), Call("download", file)>>
        IN  IF b.download = "error"
            THEN Outcome(c2, fld, k1, Append(r1, Reply("drive_error")), NotCalled)
            ELSE PublishWithMeta(c2, fld, file, Metadata[b.gemini, FileName(file)],
                                 b, k1, r1)

\* Mutant: the folder id is not looked at before the services are built.
publish_now_NoFolderCheck(c, fld, b) == PublishWithFolder(c, fld, b)

publish_now(c, fld, b) ==
    IF ~Truthy(c.drive_folder_id)
    THEN Outcome(c, fld, << >>, <<Reply("not_configured")>>, NotCalled)
    ELSE PublishWithFolder(c, fld, b)

\* The collaborator behaviours explored: a call after the first failing one
\* is never made, so its answer is fixed to "ok".
Upload(exc, needed, id) == [exc |-> exc, needed |-> needed, id |-> id]
UploadOk == {Upload("none", 1, Some(Txt_vid)), Upload("none", 1, None)}
UploadFails ==
    { Upload(e, 1, None) :
        e \in {"HttpError_uploadLimitExceeded", "HttpError_other", "Exception"} }
    \cup {Upload("none", UPLOAD_TRIES_MAX + 1, Some(Txt_vid))}

Behaviour(l1, dl, up, del, l2) ==
    [list1 |-> l1, download |-> dl, upload |-> up, delete |-> del, list2 |-> l2,
     gemini |-> Gemini_NoKey]

WithGemini(b, g) == [b EXCEPT !.gemini = g]

Behaviours ==
    {Behaviour("error", "ok", Upload("none", 1, Some(Txt_vid)), "ok", "ok"),
     Behaviour("ok", "error", Upload("none", 1, Some(Txt_vid)), "ok", "ok"),
     Behaviour("ok", "ok", Upload("none", UPLOAD_TRIES_MAX, Some(Txt_vid)), "ok", "ok")}
    \cup { Behaviour("ok", "ok", u, "ok", "ok") : u \in UploadFails }
    \cup { Behaviour("ok", "ok", u, d, l) :
             u \in UploadOk, d \in {"ok", "error"}, l \in {"ok", "error"} }
    \cup { WithGemini(Behaviour("ok", "ok", Upload("none", 1, Some(Txt_vid)), "ok", "ok"), g) :
             g \in {Gemini_Titled, Gemini_NotActive} }

(***************************************************************************)
(* Handlers.  Each takes the state st = [cfg, disk, jobs, folder] it       *)
(* starts from and returns the state it leaves, the collaborator calls it  *)
(* made (calls), the replies it sent (replies) and what upload_to_youtube   *)
(* returned to it (upload; NotCalled when it was not called).              *)
(***************************************************************************)
COUNT_MIN == 1
COUNT_MAX == 7

\* The command texts of handle_text.  Txt_publish_ar and Txt_autopost_ar
\* stand for the two Arabic phrases, written here in Latin letters.
Txt_publish_ar == <<"a", "n", "s", "h", "r">>
Txt_publish_cmd == <<"/", "p", "u", "b", "l", "i", "s", "h">>
Txt_publish_now == <<"p", "u", "b", "l", "i", "s", "h", " ", "n", "o", "w">>
Txt_autopost_ar == <<"d", "a", "b", "t">>
Txt_autopost_cmd == <<"/", "a", "u", "t", "o", "p", "o", "s", "t">>

PUBLISH_TEXTS == {Txt_publish_ar, Txt_publish_cmd, Txt_publish_now}
AUTOPOST_TEXTS == {Txt_autopost_ar, Txt_autopost_cmd}

Result(c, d, js, fld, calls, replies, up) ==
    [cfg |-> c, disk |-> d, jobs |-> js, folder |-> fld,
     calls |-> calls, replies |-> replies, upload |-> up]

\* A handler that only replies.
ReplyOnly(st, replies) ==
    Result(st.cfg, st.disk, st.jobs, st.folder, << >>, replies, NotCalled)

\* A handler that ends by calling publish_now.
Published(st, c, d, b) ==
    LET o == publish_now(c, st.folder, b)
    IN  Result(o.cfg, d, st.jobs, o.folder, o.calls, o.replies, o.upload)

\* build_services followed by list_videos, as the handlers try it after the
\* configuration is saved: the cfg left, the calls made and whether it raised.
TrialListing(c, b) ==
    LET sv == build_services(c)
    IN  [cfg |-> sv.cfg,
         calls |-> IF sv.ok THEN <<Call("list_videos", 0)>> ELSE << >>,
         ok |-> sv.ok /\ b.list2 = "ok"]

\* The /start command: a configured chat gets the folder count (or the
\* listing error), any other chat is asked for the credential document.
start(st, b) ==
    LET c == st.cfg
    IN  IF c.setup_complete /\ Truthy(c.refresh_token) /\ Truthy(c.drive_folder_id)
        THEN LET tl == TrialListing(c, b)
             IN  Result(tl.cfg, st.disk, st.jobs, st.folder, tl.calls,
                        IF tl.ok
                        THEN <<[kind |-> "welcome", count |-> Len(st.folder)]>>
                        ELSE <<Reply("welcome_drive_failed")>>,
                        NotCalled)
        ELSE IF c.next = Step("await_json") THEN ReplyOnly(st, <<Reply("ask_json")>>)
        ELSE ReplyOnly(st, <<Reply("setup_required")>>)

\* doc = [name_json, parses, json]: the file name ends in ".json", json.load
\* succeeds, and the parsed document.
handle_document(st, doc) ==
    LET c == st.cfg
        fields == extract_oauth_fields(doc.json)
    IN  IF c.next # Step("await_json") THEN ReplyOnly(st, <<Reply("not_json_stage")>>)
        ELSE IF ~doc.name_json THEN ReplyOnly(st, <<Reply("json_only")>>)
        ELSE IF ~doc.parses
        THEN ReplyOnly(st, <<[kind |-> "invalid_json", err |-> "json"]>>)
        ELSE IF ~fields.ok
        THEN ReplyOnly(st, <<[kind |-> "invalid_json", err |-> fields.err]>>)
        ELSE
        LET c2 == [c EXCEPT !.oauth_json = [some |-> TRUE, v |-> doc.json],
                            !.oauth_client_id = fields.client_id,
                            !.oauth_client_secret = fields.client_secret,
                            !.oauth_token_uri = fields.token_uri,
                            !.next = Step("await_refresh")]
        IN  Result(c2, c2, st.jobs, st.folder, << >>, <<Reply("ask_refresh")>>, NotCalled)

\* Mutant: an accepted count keeps the times stored before.
TextCount_KeepTimes(st, text) ==
    LET c == st.cfg
        n == IntParse(text)
    IN  IF ~n.ok THEN ReplyOnly(st, <<Reply("count_format_error")>>)
        ELSE IF n.val < COUNT_MIN \/ n.val > COUNT_MAX
        THEN ReplyOnly(st, <<Reply("count_range_error")>>)
        ELSE
        LET c2 == [c EXCEPT !.autopost_count = n.val, !.next = AwaitTime(1)]
        IN  Result(c2, c2, st.jobs, st.folder, << >>,
                   <<[kind |-> "ask_time", idx |-> 1]>>, NotCalled)

\* The await_times_count branch of handle_text.
TextCount(st, text) ==
    LET c == st.cfg
        n == IntParse(text)
    IN  IF ~n.ok THEN ReplyOnly(st, <<Reply("count_format_error")>>)
        ELSE IF n.val < COUNT_MIN \/ n.val > COUNT_MAX
        THEN ReplyOnly(st, <<Reply("count_range_error")>>)
        ELSE
        LET c2 == [c EXCEPT !.autopost_count = n.val,
                            !.autopost_times = << >>,
                            !.next = AwaitTime(1)]
        IN  Result(c2, c2, st.jobs, st.folder, << >>,
                   <<[kind |-> "ask_time", idx |-> 1]>>, NotCalled)

\* Mutant: the accepted text is stored as typed, not re-formatted.
TextTime_Verbatim(st, text) ==
    LET c == st.cfg
        p == ParseHHMM(text)
    IN  IF ~(p.ok /\ InDayRange(p)) THEN ReplyOnly(st, <<Reply("time_format_error")>>)
        ELSE
        LET times == Append(c.autopost_times, text)
            c2 == [c EXCEPT !.autopost_times = times]
        IN  IF Len(times) < c.autopost_count
            THEN LET c3 == [c2 EXCEPT !.next = AwaitTime(Len(times) + 1)]
                 IN  Result(c3, c3, st.jobs, st.folder, << >>,
                            <<[kind |-> "ask_time", idx |-> Len(times) + 1]>>, NotCalled)
            ELSE LET c3 == [c2 EXCEPT !.next = Step("idle"),
                                      !.autopost_enabled = TRUE]
                 IN  Result(c3, c3, schedule_daily_jobs(st.jobs, CHAT, times),
                            st.folder, << >>, <<Reply("autopost_enabled")>>, NotCalled)

\* The await_time_<i> branch of handle_text.
TextTime(st, text) ==
    LET c == st.cfg
        p == ParseHHMM(text)
    IN  IF ~(p.ok /\ InDayRange(p)) THEN ReplyOnly(st, <<Reply("time_format_error")>>)
        ELSE
        LET times == Append(c.autopost_times, Fmt02d(p.hh) \o <<":">> \o Fmt02d(p.mm))
            c2 == [c EXCEPT !.autopost_times = times]
        IN  IF Len(times) < c.autopost_count
            THEN LET c3 == [c2 EXCEPT !.next = AwaitTime(Len(times) + 1)]
                 IN  Result(c3, c3, st.jobs, st.folder, << >>,
                            <<[kind |-> "ask_time", idx |-> Len(times) + 1]>>, NotCalled)
            ELSE LET c3 == [c2 EXCEPT !.next = Step("idle"),
                                      !.autopost_enabled = TRUE]
                 IN  Result(c3, c3, schedule_daily_jobs(st.jobs, CHAT, times),
                            st.folder, << >>, <<Reply("autopost_enabled")>>, NotCalled)

\* The await_refresh branch of handle_text.
TextRefresh(st, text) ==
    LET c2 == [st.cfg EXCEPT !.refresh_token = Some(text),
                             !.next = Step("await_folder")]
    IN  Result(c2, c2, st.jobs, st.folder, << >>, <<Reply("ask_folder")>>, NotCalled)

\* Mutant: setup_complete is set only when the trial listing succeeded.
TextFolder_CompleteAfterListing(st, text, b) ==
    LET c2 == [st.cfg EXCEPT !.drive_folder_id = Some(text),
                             !.next = Step("idle")]
        tl == TrialListing(c2, b)
        c3 == [tl.cfg EXCEPT !.setup_complete = tl.ok]
    IN  Result(c3, c3, st.jobs, st.folder, tl.calls,
               IF tl.ok
               THEN <<[kind |-> "setup_saved", count |-> Len(st.folder)]>>
               ELSE <<Reply("setup_saved_drive_failed")>>,
               NotCalled)

\* The await_folder branch of handle_text.
TextFolder(st, text, b) ==
    LET c2 == [st.cfg EXCEPT !.drive_folder_id = Some(text),
                             !.next = Step("idle"),
                             !.setup_complete = TRUE]
        tl == TrialListing(c2, b)
    IN  Result(tl.cfg, c2, st.jobs, st.folder, tl.calls,
               IF tl.ok
               THEN <<[kind |-> "setup_saved", count |-> Len(st.folder)]>>
               ELSE <<Reply("setup_saved_drive_failed")>>,
               NotCalled)

\* The autopost command branch of handle_text, and the autopost_setup button.
AutopostSetup(st) ==
    LET c2 == [st.cfg EXCEPT !.next = Step("await_times_count")]
    IN  Result(c2, c2, st.jobs, st.folder, << >>, <<Reply("ask_count")>>, NotCalled)

\* raw is update.message.text; b the collaborators' answers.
handle_text(st, raw, b) ==
    LET c == st.cfg
        text == Strip(raw)
    IN  IF c.next = Step("await_refresh") THEN TextRefresh(st, text)
        ELSE IF c.next = Step("await_folder") THEN TextFolder(st, text, b)
        ELSE IF Lower(text) \in PUBLISH_TEXTS THEN Published(st, c, st.disk, b)
        ELSE IF text \in AUTOPOST_TEXTS THEN AutopostSetup(st)
        ELSE IF c.next = Step("await_times_count") THEN TextCount(st, text)
        ELSE IF c.next.name = "await_time_" THEN TextTime(st, text)
        ELSE ReplyOnly(st, <<Reply("help")>>)

\* The save_yes / save_no branch of on_button.
ButtonSave(st, data, b) ==
    LET c1 == [st.cfg EXCEPT !.save_info = (data = "save_yes"),
                             !.next = Step("idle")]
        c2 == IF c1.save_info /\ Truthy(c1.refresh_token)
                 /\ Truthy(c1.drive_folder_id)
              THEN [c1 EXCEPT !.setup_complete = TRUE] ELSE c1
        tl == TrialListing(c2, b)
    IN  Result(tl.cfg, c2, st.jobs, st.folder, tl.calls,
               <<[kind |-> "setup_done",
                  count |-> IF tl.ok THEN Len(st.folder) ELSE 0]>>,
               NotCalled)

\* The autopost_stop branch of on_button.
ButtonStop(st) ==
    LET c2 == [st.cfg EXCEPT !.autopost_enabled = FALSE,
                             !.autopost_times = << >>,
                             !.autopost_count = 0]
    IN  Result(c2, c2, clear_chat_jobs(st.jobs, CHAT), st.folder, << >>,
               <<Reply("autopost_stopped")>>, NotCalled)

\* data is query.data.
on_button(st, data, b) ==
    LET c == st.cfg
    IN  IF data \in {"save_yes", "save_no"} THEN ButtonSave(st, data, b)
        ELSE IF data = "publish_now"
        THEN LET r == Published(st, c, st.disk, b)
             IN  [r EXCEPT !.replies = <<Reply("publishing")>> \o r.replies]
        ELSE IF data = "autopost_setup" THEN AutopostSetup(st)
        ELSE IF data = "autopost_stop" THEN ButtonStop(st)
        ELSE IF data = "show_settings"
        THEN ReplyOnly(st, <<[kind |-> "settings",
                              setup_complete |-> c.setup_complete,
                              drive_folder_id |-> c.drive_folder_id,
                              autopost_enabled |-> c.autopost_enabled,
                              autopost_times |-> c.autopost_times]>>)
        ELSE ReplyOnly(st, <<Reply("unknown_option")>>)

\* The job callback: publish_now for the chat id bound to the job.
scheduled_post(st, job, b) == Published(st, st.cfg, st.disk, b)

(***************************************************************************)
(* Inputs explored.                                                        *)
(***************************************************************************)
DocEvent(name_json, parses, json) ==
    [name_json |-> name_json, parses |-> parses, json |-> json]

Doc_installed ==
    DocEvent(TRUE, TRUE,
             [installed |-> Block(Str(Txt_cid), Str(Txt_sec), Str(Txt_uri)),
              web |-> NoBlock])
Doc_null_id ==
    DocEvent(TRUE, TRUE,
             [installed |-> Block(Null, Str(Txt_sec), Missing), web |-> NoBlock])
Doc_no_secret ==
    DocEvent(TRUE, TRUE,
             [installed |-> Block(Str(Txt_cid), Missing, Missing), web |-> NoBlock])
Doc_no_block == DocEvent(TRUE, TRUE, EmptyJson)
Doc_not_json == DocEvent(TRUE, FALSE, EmptyJson)
Doc_other_name == DocEvent(FALSE, TRUE, Doc_installed.json)

Docs ==
    {Doc_installed, Doc_null_id, Doc_no_secret, Doc_no_block,
     Doc_not_json, Doc_other_name}

\* The documents explored in a step: outside await_json every document gets
\* the same answer, so one is sent.
DocsAt(c) == IF c.next = Step("await_json") THEN Docs ELSE {Doc_installed}

Txt_R == <<"R", "_", "T">>
Txt_F == <<"F", "1", "2", "3">>

Txt_Publish_Now == <<"P", "u", "b", "l", "i", "s", "h", " ", "N", "o", "w">>
CommandTexts == {Txt_Publish_Now, Txt_autopost_ar, Txt_publish_cmd}

CountTexts ==
    {<<"0">>, <<"1">>, <<"2">>, <<"+", "2">>, <<"8">>, <<"-", "1">>, <<"x">>}

Txt_0000 == <<"0", "0", ":", "0", "0">>
Txt_2359 == <<"2", "3", ":", "5", "9">>
TimeTexts ==
    {Txt_0000, <<"0", ":", "0">>, Txt_2359,
     <<"2", "4", ":", "0", "0">>, <<"2", "3", ":", "6", "0">>,
     <<"1", ":", "2", ":", "3">>, <<"0", "0", "0", "0">>}


\* filters.TEXT & ~filters.COMMAND: a text that starts with "/" is a bot
\* command and is not dispatched to handle_text.
IsCommand(raw) == raw # << >> /\ Head(raw) = "/"

\* The texts explored in a step: one sample token in each of the two steps
\* that store any text verbatim; elsewhere the command texts, the samples
\* the step parses, and one sample of each other kind.
TextsAt(c) ==
    IF c.next = Step("await_refresh") THEN {Txt_R}
    ELSE IF c.next = Step("await_folder") THEN {Txt_F}
    ELSE IF c.next = Step("await_times_count")
    THEN CommandTexts \cup CountTexts \cup {Txt_0000}
    ELSE IF c.next.name = "await_time_"
    THEN CommandTexts \cup TimeTexts \cup {<<"2">>}
    ELSE CommandTexts \cup {Txt_R, <<"2">>, Txt_0000}

Buttons ==
    {"save_yes", "save_no", "publish_now", "autopost_setup", "autopost_stop",
     "show_settings", "other"}

\* The folder starts with MaxFiles videos, file ids 1..MaxFiles by age.
MaxFiles == 2
InitFolder == [i \in 1..MaxFiles |-> i]

(***************************************************************************)
(* The specification.                                                      *)
(***************************************************************************)
St == [cfg |-> cfg, disk |-> disk, jobs |-> jobs, folder |-> folder]

Event(op, arg, r) ==
    [op |-> op, arg |-> arg,
     calls |-> r.calls, replies |-> r.replies, upload |-> r.upload]

Apply(op, arg, r) ==
    /\ cfg' = r.cfg
    /\ disk' = r.disk
    /\ jobs' = r.jobs
    /\ folder' = r.folder
    /\ ev' = Event(op, arg, r)
    /\ UNCHANGED <<update_queue, run>>

Init ==
    /\ cfg = DefaultChat
    /\ disk = DefaultChat
    /\ jobs = << >>
    /\ folder = InitFolder
    /\ update_queue = << >>
    /\ run = NoRun
    /\ ev = [op |-> "none", arg |-> << >>, calls |-> << >>, replies |-> << >>,
             upload |-> NotCalled]

\* The results a handler H can give over the collaborators' behaviours.  The
\* first collaborator call a handler makes does not depend on the answers,
\* so a handler that makes no call under one behaviour makes none under any.
Results(H(_)) ==
    LET b0 == CHOOSE b \in Behaviours : TRUE
    IN  IF H(b0).calls = << >> THEN {H(b0)} ELSE {H(b) : b \in Behaviours}

Start ==
    \E r \in Results(LAMBDA b : start(St, b)) : Apply("start", << >>, r)

HandleDocument ==
    \E doc \in DocsAt(cfg) :
        Apply("handle_document", doc, handle_document(St, doc))

HandleText ==
    \E raw \in TextsAt(cfg) :
        /\ ~IsCommand(raw)
        /\ \E r \in Results(LAMBDA b : handle_text(St, raw, b)) :
               Apply("handle_text", raw, r)

OnButton ==
    \E data \in Buttons :
        \E r \in Results(LAMBDA b : on_button(St, data, b)) :
            Apply("on_button", data, r)

ScheduledPost ==
    \E job \in {jobs[i] : i \in 1..Len(jobs)} :
        \E r \in Results(LAMBDA b : scheduled_post(St, job, b)) :
            Apply("scheduled_post", job, r)

Next == Start \/ HandleDocument \/ HandleText \/ OnButton \/ ScheduledPost

Spec == Init /\ [][Next]_vars

(***************************************************************************)
(* The scheduler helpers on their own: schedule_daily_jobs and             *)
(* clear_chat_jobs called for either of two chats with any list of time    *)
(* strings (such as a list read back from a user file).                    *)
(***************************************************************************)
OTHER_CHAT == 2
Chats == {CHAT, OTHER_CHAT}

Txt_0_0 == <<"0", ":", "0">>
Txt_2400 == <<"2", "4", ":", "0", "0">>
Txt_x == <<"x">>
SchedTexts == {Txt_0000, Txt_0_0, Txt_2400, Txt_x}

MaxTimes == 2
RECURSIVE SeqsUpTo(_, _)
SeqsUpTo(S, n) ==
    IF n = 0 THEN {<< >>}
    ELSE LET shorter == SeqsUpTo(S, n - 1)
         IN  shorter \cup {Append(q, x) : q \in shorter, x \in S}
TimeLists == SeqsUpTo(SchedTexts, MaxTimes)

InitSched ==
    /\ cfg = DefaultChat
    /\ disk = DefaultChat
    /\ jobs = << >>
    /\ folder = InitFolder
    /\ update_queue = << >>
    /\ run = NoRun
    /\ ev = [op |-> "none", arg |-> << >>]

ScheduleDailyJobs ==
    \E chat_id \in Chats, times \in TimeLists :
        /\ jobs' = schedule_daily_jobs(jobs, chat_id, times)
        /\ ev' = [op |-> "schedule_daily_jobs",
                  arg |-> [chat_id |-> chat_id, times |-> times]]
        /\ UNCHANGED <<cfg, disk, folder, update_queue, run>>

ClearChatJobs ==
    \E chat_id \in Chats :
        /\ jobs' = clear_chat_jobs(jobs, chat_id)
        /\ ev' = [op |-> "clear_chat_jobs", arg |-> [chat_id |-> chat_id]]
        /\ UNCHANGED <<cfg, disk, folder, update_queue, run>>

NextSched == ScheduleDailyJobs \/ ClearChatJobs

SpecSched == InitSched /\ [][NextSched]_vars

(***************************************************************************)
(* The credential helpers on their own: extract_oauth_fields applied to    *)
(* every sample document, and handle_document receiving every sample file. *)
(***************************************************************************)
\* The member is {}: it exists and holds nothing.
EmptyBlock ==
    [some |-> TRUE, client_id |-> Missing, client_secret |-> Missing,
     token_uri |-> Missing, extra |-> FALSE]

BlockSamples ==
    {NoBlock, EmptyBlock}
    \cup { Block(id, secret, uri) :
             id \in {Missing, Null, Str(Txt_cid)},
             secret \in {Missing, Str(Txt_sec)},
             uri \in {Missing, Str(Txt_uri)} }

WebSamples ==
    {NoBlock, EmptyBlock, Block(Str(Txt_cid), Str(Txt_sec), Missing),
     Block(Missing, Str(Txt_sec), Str(Txt_uri))}

JsonSamples == { [installed |-> i, web |-> w] : i \in BlockSamples, w \in WebSamples }

DocSamples ==
    { DocEvent(TRUE, TRUE, j) : j \in JsonSamples } \cup {Doc_not_json, Doc_other_name}

InitCredential ==
    /\ cfg = DefaultChat
    /\ disk = DefaultChat
    /\ jobs = << >>
    /\ folder = InitFolder
    /\ update_queue = << >>
    /\ run = NoRun
    /\ ev = [op |-> "none", arg |-> << >>]

ExtractOauthFields ==
    \E j \in JsonSamples :
        /\ ev' = [op |-> "extract_oauth_fields", arg |-> j,
                  result |-> extract_oauth_fields(j)]
        /\ UNCHANGED <<cfg, disk, jobs, folder, update_queue, run>>

UploadDocument ==
    \E doc \in DocSamples : Apply("handle_document", doc, handle_document(St, doc))

NextCredential == ExtractOauthFields \/ UploadDocument

SpecCredential == InitCredential /\ [][NextCredential]_vars

(***************************************************************************)
(* The hashtag helpers on their own: format_hashtags applied to sample tag *)
(* lists and infer_context_tags to sample file names.                      *)
(***************************************************************************)
Tag_Pet_Lovers == <<"P", "e", "t", " ", "L", "o", "v", "e", "r", "s">>

TrendingSamples == { Take(TRENDING_TAGS, n) : n \in 0..Len(TRENDING_TAGS) }

ContextPool ==
    <<Tag_Slime, Tag_Glitter, Tag_Kitten, Tag_Cats, Tag_PetLovers, Tag_Ocean, Tag_Wave>>
ContextualSamples ==
    { Take(ContextPool, n) : n \in 0..Len(ContextPool) }
    \cup {<<Tag_Tech>>, <<Tag_AI>>, <<Tag_Slime, Tag_Slime>>,
          <<Tag_Pet_Lovers, Tag_PetLovers>>}

FileNames == {File_slime, File_cat_car, File_scary, File_video, << >>}

InitHashtags ==
    /\ cfg = DefaultChat
    /\ disk = DefaultChat
    /\ jobs = << >>
    /\ folder = InitFolder
    /\ update_queue = << >>
    /\ run = NoRun
    /\ ev = [op |-> "none", arg |-> << >>]

FormatHashtags ==
    \E trending \in TrendingSamples, contextual \in ContextualSamples :
        /\ ev' = [op |-> "format_hashtags",
                  arg |-> [trending |-> trending, contextual |-> contextual],
                  result |-> format_hashtags(trending, contextual, MAX_TOTAL)]
        /\ UNCHANGED <<cfg, disk, jobs, folder, update_queue, run>>

InferContextTags ==
    \E filename \in FileNames :
        /\ ev' = [op |-> "infer_context_tags", arg |-> filename,
                  result |-> infer_context_tags(filename)]
        /\ UNCHANGED <<cfg, disk, jobs, folder, update_queue, run>>

NextHashtags == FormatHashtags \/ InferContextTags

SpecHashtags == InitHashtags /\ [][NextHashtags]_vars

(***************************************************************************)
(* Claims.                                                                 *)
(***************************************************************************)
(* SpecMetadata: generate_metadata_with_gemini applied to every Gemini     *)
(* behaviour and file name, and publish_now run by a chat whose setup is   *)
(* complete, over the pipeline's Gemini behaviours and upload answers.     *)
(***************************************************************************)
\* The configuration a complete setup leaves in memory and on disk: the
\* credential document Doc_installed, the refresh token Txt_R and the folder
\* id Txt_F were sent in turn and accepted.
ConfiguredChat ==
    [DefaultChat EXCEPT !.next = Step("idle"),
                        !.oauth_json = Some(Doc_installed.json),
                        !.oauth_client_id = Some(Txt_cid),
                        !.oauth_client_secret = Some(Txt_sec),
                        !.oauth_token_uri = Some(Txt_uri),
                        !.refresh_token = Some(Txt_R),
                        !.drive_folder_id = Some(Txt_F),
                        !.setup_complete = TRUE]

InitMetadata ==
    /\ cfg = ConfiguredChat
    /\ disk = ConfiguredChat
    /\ jobs = << >>
    /\ folder = InitFolder
    /\ update_queue = << >>
    /\ run = NoRun
    /\ ev = [op |-> "none", arg |-> << >>]

GenerateMetadata ==
    \E g \in Geminis, filename_hint \in FileNames :
        /\ ev' = [op |-> "generate_metadata_with_gemini",
                  arg |-> [gemini |-> g, filename_hint |-> filename_hint],
                  result |-> generate_metadata_with_gemini(g, filename_hint)]
        /\ UNCHANGED <<cfg, disk, jobs, folder, update_queue, run>>

PublishNow ==
    \E g \in PipelineGeminis, u \in UploadOk \cup UploadFails :
        \E r \in {Published(St, cfg, disk,
                            WithGemini(Behaviour("ok", "ok", u, "ok", "ok"), g))} :
            /\ cfg' = r.cfg
            /\ disk' = r.disk
            /\ folder' = r.folder
            /\ ev' = Event("publish_now", g, r)
            /\ UNCHANGED <<jobs, update_queue, run>>

NextMetadata == GenerateMetadata \/ PublishNow

SpecMetadata == InitMetadata /\ [][NextMetadata]_vars

(***************************************************************************)
(* SpecWebhook: the webhook endpoint POST /webhook/{token} and the update  *)
(* queue it feeds.  A request is its path token and its body; a body says  *)
(* whether request.json() reads it, whether Update.de_json accepts it, and *)
(* the update it holds.                                                    *)
(***************************************************************************)
TELEGRAM_BOT_TOKEN == <<"1", "2", ":", "A", "b">>

Body(json, de_json, update) == [json |-> json, de_json |-> de_json, update |-> update]
Body_message == Body("ok", "ok", "message")
Body_callback == Body("ok", "ok", "callback_query")
Body_rejected == Body("ok", "error", "none")
Body_not_json == Body("error", "ok", "none")
Bodies == {Body_message, Body_callback, Body_rejected, Body_not_json}

\* Path tokens: the bot token, the same in lower case, a proper prefix, an
\* extension and an unrelated one.
PathTokens ==
    {TELEGRAM_BOT_TOKEN, Lower(TELEGRAM_BOT_TOKEN),
     SubSeq(TELEGRAM_BOT_TOKEN, 1, Len(TELEGRAM_BOT_TOKEN) - 1),
     TELEGRAM_BOT_TOKEN \o <<"x">>, <<"x">>}

MaxQueue == 2

Response(status, queue) == [status |-> status, queue |-> queue]

\* Mutant: the path token is not compared with the bot token.
telegram_webhook_NoTokenCheck(queue, token, body) ==
    IF body.json = "error" THEN Response(500, queue)
    ELSE IF body.de_json = "error" THEN Response(400, queue)
    ELSE Response(200, Append(queue, body.update))

\* The status answered and the queue left.  An error of request.json() is
\* raised outside the try block and answered by the framework with 500.
telegram_webhook(queue, token, body) ==
    IF token # TELEGRAM_BOT_TOKEN THEN Response(403, queue)
    ELSE IF body.json = "error" THEN Response(500, queue)
    ELSE IF body.de_json = "error" THEN Response(400, queue)
    ELSE Response(200, Append(queue, body.update))

InitWebhook ==
    /\ cfg = DefaultChat
    /\ disk = DefaultChat
    /\ jobs = << >>
    /\ folder = InitFolder
    /\ update_queue = << >>
    /\ run = NoRun
    /\ ev = [op |-> "none", arg |-> << >>]

TelegramWebhook ==
    \E token \in PathTokens, body \in Bodies :
        LET r == telegram_webhook(update_queue, token, body)
        IN  /\ Len(r.queue) <= MaxQueue
            /\ update_queue' = r.queue
            /\ ev' = [op |-> "telegram_webhook",
                      arg |-> [token |-> token, body |-> body],
                      status |-> r.status]
            /\ UNCHANGED <<cfg, disk, jobs, folder, run>>

\* The started application takes the oldest update off the queue.
ProcessUpdate ==
    /\ update_queue # << >>
    /\ update_queue' = Tail(update_queue)
    /\ ev' = [op |-> "process_update", arg |-> Head(update_queue)]
    /\ UNCHANGED <<cfg, disk, jobs, folder, run>>

NextWebhook == TelegramWebhook \/ ProcessUpdate

SpecWebhook == InitWebhook /\ [][NextWebhook]_vars

(***************************************************************************)
(* SpecRun: one publish_now call followed from one collaborator call to    *)
(* the next.  run.pc is the call the code is about to make, run.replies    *)
(* the replies sent so far, and the counters are the calls made by each    *)
(* polling loop: dl_polls (downloader.next_chunk, counted up to MaxChunks  *)
(* and no further), ready_polls (genai.get_file) and tries                 *)
(* (request.next_chunk of the upload).  progress is the status the         *)
(* downloader answered last; meta says which pair the metadata step gave.  *)
(***************************************************************************)
MaxChunks == 3
Progress == {0, 1}

Running(pc) ==
    [pc |-> pc, replies |-> << >>, dl_polls |-> 0, progress |-> 0,
     ready_polls |-> 0, tries |-> 0, meta |-> "none"]

\* The call ends with the reply of the given kind.
Ends(r, kind) == [r EXCEPT !.pc = "done", !.replies = Append(@, kind)]

\* The metadata step is over: the reply that shows the title, then the upload.
ToUpload(r, meta) ==
    [r EXCEPT !.pc = "upload", !.meta = meta, !.replies = Append(@, "uploading")]

\* A chat whose setup stopped before the refresh token was sent, with a
\* folder id written by hand: build_services refuses it.
NoRefreshChat == [ConfiguredChat EXCEPT !.refresh_token = None]

InitRun ==
    /\ cfg \in {DefaultChat, ConfiguredChat, NoRefreshChat}
    /\ disk = cfg
    /\ jobs = << >>
    /\ folder = InitFolder
    /\ update_queue = << >>
    /\ run = NoRun
    /\ ev = [op |-> "none", arg |-> << >>]

\* publish_now is called: the folder check and build_services.
RunPublishNow ==
    /\ run.pc = "none"
    /\ IF ~Truthy(cfg.drive_folder_id)
       THEN /\ run' = Ends(Running("start"), "not_configured")
            /\ cfg' = cfg
       ELSE /\ cfg' = build_services(cfg).cfg
            /\ run' = IF build_services(cfg).ok
                      THEN Running("list_first")
                      ELSE Ends(Running("start"), "publish_error")
    /\ UNCHANGED <<disk, jobs, folder, ev, update_queue>>

RunListFirst ==
    /\ run.pc = "list_first"
    /\ \E a \in {"error", "none", "file"} :
           run' = IF a = "error" THEN Ends(run, "drive_error")
                  ELSE IF a = "none" THEN Ends(run, "no_videos")
                  ELSE [run EXCEPT !.pc = "download", !.replies = Append(@, "analysing")]
    /\ UNCHANGED <<cfg, disk, jobs, folder, ev, update_queue>>

\* One downloader.next_chunk() of the loop `while not done`.
RunDownloadChunk ==
    /\ run.pc = "download"
    /\ \E a \in {"error", "more", "done"}, p \in Progress :
           LET n == IF run.dl_polls < MaxChunks THEN run.dl_polls + 1 ELSE MaxChunks
           IN  run' = IF a = "error" THEN Ends([run EXCEPT !.dl_polls = n], "drive_error")
                      ELSE IF a = "more"
                      THEN [run EXCEPT !.dl_polls = n, !.progress = p]
                      ELSE [run EXCEPT !.dl_polls = n, !.progress = p,
                                       !.pc = "gemini_upload"]
    /\ UNCHANGED <<cfg, disk, jobs, folder, ev, update_queue>>

\* The API-key test, genai.upload_file and the first genai.get_file.
RunGeminiUpload ==
    /\ run.pc = "gemini_upload"
    /\ \E a \in {"no_api_key", "upload_error", "get_file_error", "processing", "active"} :
           run' = IF a \in {"no_api_key", "upload_error"} THEN ToUpload(run, "fallback")
                  ELSE IF a = "get_file_error"
                  THEN ToUpload([run EXCEPT !.ready_polls = 1], "fallback")
                  ELSE IF a = "active"
                  THEN [run EXCEPT !.ready_polls = 1, !.pc = "generate"]
                  ELSE [run EXCEPT !.ready_polls = 1, !.pc = "ready_poll"]
    /\ UNCHANGED <<cfg, disk, jobs, folder, ev, update_queue>>

\* One iteration of `for _ in range(60)` that did not see ACTIVE: the next
\* genai.get_file; after the last iteration the state is tested once more.
RunReadyPoll ==
    /\ run.pc = "ready_poll"
    /\ run.ready_polls <= READY_POLLS
    /\ \E a \in {"error", "processing", "active"} :
           LET n == run.ready_polls + 1
           IN  run' = IF a = "error" THEN ToUpload([run EXCEPT !.ready_polls = n], "fallback")
                      ELSE IF a = "active"
                      THEN [run EXCEPT !.ready_polls = n, !.pc = "generate"]
                      ELSE IF n = READY_POLLS + 1
                      THEN ToUpload([run EXCEPT !.ready_polls = n], "fallback")
                      ELSE [run EXCEPT !.ready_polls = n]
    /\ UNCHANGED <<cfg, disk, jobs, folder, ev, update_queue>>

RunGenerate ==
    /\ run.pc = "generate"
    /\ \E a \in {"error", "text"} :
           run' = ToUpload(run, IF a = "error" THEN "fallback" ELSE "parsed")
    /\ UNCHANGED <<cfg, disk, jobs, folder, ev, update_queue>>

\* One request.next_chunk() of the upload loop, then the test of tries.
RunUploadChunk ==
    /\ run.pc = "upload"
    /\ \E a \in {"error", "none", "response"} :
           LET n == run.tries + 1
           IN  run' = IF a = "error" \/ n > UPLOAD_TRIES_MAX
                      THEN Ends([run EXCEPT !.tries = n], "upload_failed")
                      ELSE IF a = "none" THEN [run EXCEPT !.tries = n]
                      ELSE [run EXCEPT !.tries = n, !.pc = "delete"]
    /\ UNCHANGED <<cfg, disk, jobs, folder, ev, update_queue>>

\* delete_drive_file: its error is logged and dropped.
RunDelete ==
    /\ run.pc = "delete"
    /\ \E a \in {"ok", "error"} :
           /\ run' = [run EXCEPT !.pc = "list_videos"]
           /\ folder' = IF a = "ok" /\ folder # << >> THEN Tail(folder) ELSE folder
    /\ UNCHANGED <<cfg, disk, jobs, ev, update_queue>>

RunListVideos ==
    /\ run.pc = "list_videos"
    /\ \E a \in {"ok", "error"} :
           run' = Ends(run, IF a = "ok" THEN "published" ELSE "drive_error")
    /\ UNCHANGED <<cfg, disk, jobs, folder, ev, update_queue>>

NextRun ==
    \/ RunPublishNow
    \/ RunListFirst
    \/ RunDownloadChunk
    \/ RunGeminiUpload
    \/ RunReadyPoll
    \/ RunGenerate
    \/ RunUploadChunk
    \/ RunDelete
    \/ RunListVideos

SpecRun == InitRun /\ [][NextRun]_vars

\* Every collaborator call returns and the code goes on to its next step.
SpecRunFair == SpecRun /\ WF_vars(NextRun)

(***************************************************************************)
LastReply == ev.replies[Len(ev.replies)]

\* An optional ChatConfig field is present when it is not None.
Present(x) == x.some

\* C1: in every reachable state, autopost_enabled implies that
\* len(autopost_times) = autopost_count, autopost_count >= 1 and
\* setup_complete holds.
C1_AutopostEnabledInvariant ==
    cfg.autopost_enabled =>
        /\ Len(cfg.autopost_times) = cfg.autopost_count
        /\ cfg.autopost_count >= 1
        /\ cfg.setup_complete

\* Autopost enabled by the last time of a count typed before any setup.
C1_Witness ==
    /\ ev.op = "handle_text"
    /\ LastReply.kind = "autopost_enabled"
    /\ cfg.autopost_enabled /\ ~cfg.setup_complete
    /\ jobs # << >>

StepNames ==
    {"await_json", "await_refresh", "await_folder", "await_times_count",
     "await_time_", "idle"}

\* C2: in every reachable state the step is one of the six steps, and at
\* await_autopost_time(i) the index satisfies 1 <= i <= autopost_count.
C2_StepInvariant ==
    /\ cfg.next.name \in StepNames
    /\ cfg.next.name = "await_time_" =>
           1 <= cfg.next.idx /\ cfg.next.idx <= cfg.autopost_count

\* The stop button pressed while the first time is awaited.
C2_Witness ==
    /\ ev.op = "on_button" /\ ev.arg = "autopost_stop"
    /\ cfg.next = AwaitTime(1)
    /\ cfg.autopost_count = 0

\* C3: in every reachable state, setup_complete implies that client_id,
\* client_secret, refresh_token and folder_id are all present.
C3_SetupCompleteInvariant ==
    cfg.setup_complete =>
        /\ Present(cfg.oauth_client_id)
        /\ Present(cfg.oauth_client_secret)
        /\ Present(cfg.refresh_token)
        /\ Present(cfg.drive_folder_id)

\* Setup completed from a document whose client_id is JSON null.
C3_Witness ==
    /\ cfg.setup_complete
    /\ cfg.oauth_json = Some(Doc_null_id.json)
    /\ ~Present(cfg.oauth_client_id)
    /\ Present(cfg.refresh_token) /\ Present(cfg.drive_folder_id)

\* C4: after a stop-autopost button press, in whatever step it arrived,
\* autopost_enabled is false, autopost_times is empty, autopost_count is 0,
\* the step is idle and no trigger of the chat is registered.
C4_StopAutopost ==
    (ev.op = "on_button" /\ ev.arg = "autopost_stop") =>
        /\ ~cfg.autopost_enabled
        /\ cfg.autopost_times = << >>
        /\ cfg.autopost_count = 0
        /\ cfg.next = Step("idle")
        /\ ChatJobs(jobs, CHAT) = << >>

\* The stop button pressed at the count step: the step stays as it was.
C4_Witness ==
    /\ ev.op = "on_button" /\ ev.arg = "autopost_stop"
    /\ ~cfg.autopost_enabled /\ cfg.autopost_times = << >> /\ jobs = << >>
    /\ cfg.next = Step("await_times_count")

\* The publish invocation the last handler made, if it reached the upload.
UploadCalled == ev.upload.tag # "not_called"
SelectedFile == (CHOOSE i \in 1..Len(ev.calls) : ev.calls[i].op = "upload")
CallsOf(op) == {i \in 1..Len(ev.calls) : ev.calls[i].op = op}
InFolder(file) == \E i \in 1..Len(folder) : folder[i] = file

\* C5: when the upload of a publish invocation fails (rate limit, service
\* error, other exception, polling ceiling), delete is never called, the
\* selected file is still in the folder, the reply carries the classified
\* reason, and a rate-limit failure gets the rate-limit reason.
C5_FailedUploadKeepsFile ==
    (UploadCalled /\ ev.upload.raised # "none") =>
        /\ CallsOf("delete") = {}
        /\ InFolder(ev.calls[SelectedFile].file)
        /\ LastReply.kind = "upload_failed"
        /\ LastReply.reason =
              (CASE ev.upload.raised = "HttpError_uploadLimitExceeded"
                        -> "uploadLimitExceeded"
                 [] ev.upload.raised = "HttpError_other" -> "HttpError"
                 [] ev.upload.raised = "did_not_complete" -> "Generic did_not_complete"
                 [] OTHER -> "Generic")

C5_Witness ==
    /\ UploadCalled
    /\ ev.upload.raised = "HttpError_uploadLimitExceeded"
    /\ LastReply = [kind |-> "upload_failed", reason |-> "uploadLimitExceeded"]
    /\ folder = InitFolder

\* C6: when the upload of a publish invocation succeeds with a video id,
\* delete is called exactly once, on the selected file, the folder is
\* re-listed only after it, and the last reply is the success reply with the
\* URL of that video id and the remaining count of the listing made after the
\* deletion.
C6_SuccessDeletesThenReports ==
    (UploadCalled /\ ev.upload.tag = "url") =>
        /\ Cardinality(CallsOf("delete")) = 1
        /\ \A d \in CallsOf("delete") :
              /\ ev.calls[d].file = ev.calls[SelectedFile].file
              /\ d > SelectedFile
              /\ \E l \in CallsOf("list_videos") : l > d
        /\ LastReply.kind = "published"
        /\ LastReply.url = "url"
        /\ LastReply.video_id = ev.upload.video_id
        /\ LastReply.remaining = Len(folder)

C6_Witness ==
    /\ UploadCalled /\ ev.upload.tag = "url"
    /\ CallsOf("delete") # {}
    /\ LastReply.kind = "drive_error"

\* A credential document with an "installed" or "web" block that holds a
\* client_id and a client_secret string.
HasIdentity(b) == b.some /\ b.client_id.val.some /\ b.client_secret.val.some
ValidDoc(doc) ==
    doc.name_json /\ doc.parses
    /\ (HasIdentity(doc.json.installed) \/ HasIdentity(doc.json.web))

C7_Step ==
    /\ (cfg.next = Step("await_json") /\ ev'.op = "handle_document"
            /\ ValidDoc(ev'.arg))
        => /\ cfg'.next = Step("await_refresh")
           /\ Present(cfg'.oauth_client_id) /\ Present(cfg'.oauth_client_secret)
    /\ (cfg.next = Step("await_refresh") /\ ev'.op = "handle_text")
        => cfg' = [cfg EXCEPT !.refresh_token = Some(ev'.arg),
                              !.next = Step("await_folder")]
    /\ (cfg.next = Step("await_folder") /\ ev'.op = "handle_text")
        => /\ cfg' = [cfg EXCEPT !.drive_folder_id = Some(ev'.arg),
                                 !.next = Step("idle"),
                                 !.setup_complete = TRUE]
           /\ LastReply'.kind \in {"setup_saved", "setup_saved_drive_failed"}
           /\ (Present(cfg.oauth_client_id) /\ Present(cfg.oauth_client_secret))
                  => ev'.calls = <<Call("list_videos", 0)>>

PublishReplyKinds ==
    {"not_configured", "publish_error", "drive_error", "no_videos",
     "upload_failed", "published"}

\* A string of the form HH:MM, two digits each, HH in [0,23], MM in [0,59].
MatchesHHMM(t) ==
    /\ Len(t) = 5 /\ t[3] = ":"
    /\ \A i \in {1, 2, 4, 5} : IsDigit(t[i])
    /\ 10 * DigitVal(t[1]) + DigitVal(t[2]) <= HOUR_MAX
    /\ 10 * DigitVal(t[4]) + DigitVal(t[5]) <= MINUTE_MAX

AtTimeStep == cfg.next.name = "await_time_"

\* C8 as stated: at await_autopost_time(i) every HH:MM string is accepted
\* and appended, and every other string is rejected with a format error,
\* leaving the ChatConfig unchanged.
C8_Original ==
    [][(AtTimeStep /\ ev'.op = "handle_text") =>
          IF MatchesHHMM(ev'.arg)
          THEN cfg'.autopost_times = Append(cfg.autopost_times, ev'.arg)
          ELSE LastReply'.kind = "time_format_error" /\ cfg' = cfg]_vars

\* C8 as amended: at await_autopost_time(i) the publish-now text runs the
\* publish pipeline and the configure-autopost text moves to
\* await_autopost_count; every other input made of two integer literals
\* around one ":" with hh in [0,23] and mm in [0,59] is accepted and its
\* zero-padded form appended; every remaining input is rejected with a
\* format error, leaving the ChatConfig and the triggers unchanged.
C8_TimeStepInputs ==
    [][(AtTimeStep /\ ev'.op = "handle_text") =>
          LET t == Strip(ev'.arg)
              p == ParseHHMM(t)
          IN  IF Lower(t) \in PUBLISH_TEXTS
              THEN cfg' = cfg /\ LastReply'.kind \in PublishReplyKinds
              ELSE IF t \in AUTOPOST_TEXTS
              THEN /\ cfg' = [cfg EXCEPT !.next = Step("await_times_count")]
                   /\ LastReply'.kind = "ask_count"
              ELSE IF p.ok /\ InDayRange(p)
              THEN /\ cfg'.autopost_times =
                          Append(cfg.autopost_times,
                                 Fmt02d(p.hh) \o <<":">> \o Fmt02d(p.mm))
                   /\ LastReply'.kind \in {"ask_time", "autopost_enabled"}
              ELSE /\ LastReply'.kind = "time_format_error"
                   /\ cfg' = cfg /\ jobs' = jobs]_vars

C8_Witness ==
    /\ ev.op = "handle_text" /\ ev.arg = <<"0", ":", "0">>
    /\ LastReply = [kind |-> "ask_time", idx |-> 2]
    /\ cfg.autopost_times = <<Txt_0000>>
    /\ cfg.next = AwaitTime(2)

AtCountStep == cfg.next = Step("await_times_count")

\* C9 as stated: at await_autopost_count an input that parses as an integer
\* n in [1,7] sets autopost_count = n, clears autopost_times and leads to
\* await_autopost_time(1); every other input is rejected with a range error
\* and leaves the ChatConfig unchanged.
C9_Original ==
    [][(AtCountStep /\ ev'.op = "handle_text") =>
          LET n == IntParse(ev'.arg)
          IN  IF n.ok /\ COUNT_MIN <= n.val /\ n.val <= COUNT_MAX
              THEN cfg' = [cfg EXCEPT !.autopost_count = n.val,
                                      !.autopost_times = << >>,
                                      !.next = AwaitTime(1)]
              ELSE /\ LastReply'.kind \in {"count_range_error", "count_format_error"}
                   /\ cfg' = cfg]_vars

\* C9 as amended: at await_autopost_count the publish-now text runs the
\* publish pipeline and the configure-autopost text asks for the count
\* again, both leaving the ChatConfig unchanged; every other input is
\* handled as stated.
C9_CountStepInputs ==
    [][(AtCountStep /\ ev'.op = "handle_text") =>
          LET t == Strip(ev'.arg)
              n == IntParse(t)
          IN  IF Lower(t) \in PUBLISH_TEXTS
              THEN cfg' = cfg /\ LastReply'.kind \in PublishReplyKinds
              ELSE IF t \in AUTOPOST_TEXTS
              THEN cfg' = cfg /\ LastReply'.kind = "ask_count"
              ELSE IF n.ok /\ COUNT_MIN <= n.val /\ n.val <= COUNT_MAX
              THEN /\ cfg' = [cfg EXCEPT !.autopost_count = n.val,
                                         !.autopost_times = << >>,
                                         !.next = AwaitTime(1)]
                   /\ LastReply' = [kind |-> "ask_time", idx |-> 1]
              ELSE /\ LastReply'.kind \in {"count_range_error", "count_format_error"}
                   /\ cfg' = cfg /\ jobs' = jobs]_vars

C9_Witness ==
    /\ ev.op = "handle_text" /\ ev.arg = <<"+", "2">>
    /\ cfg.autopost_count = 2 /\ cfg.autopost_times = << >>
    /\ cfg.next = AwaitTime(1)
    /\ cfg.autopost_enabled /\ jobs # << >>

\* The chat is collecting the times of an accepted count: k - 1 times are
\* stored and the k-th is awaited, k <= autopost_count.
Collecting ==
    /\ AtTimeStep
    /\ cfg.autopost_count \in COUNT_MIN..COUNT_MAX
    /\ cfg.next.idx = Len(cfg.autopost_times) + 1
    /\ cfg.next.idx <= cfg.autopost_count

OnePerTime(times) == [i \in 1..Len(times) |-> [chat_id |-> CHAT, t |-> times[i]]]

C10_Step ==
    /\ (AtCountStep /\ ev'.op = "handle_text" /\ LastReply'.kind = "ask_time")
        => Collecting' /\ cfg'.autopost_times = << >>
    /\ (Collecting /\ ev'.op = "handle_text"
            /\ Lower(Strip(ev'.arg)) \notin PUBLISH_TEXTS
            /\ Strip(ev'.arg) \notin AUTOPOST_TEXTS)
        => LET p == ParseHHMM(Strip(ev'.arg))
               times == Append(cfg.autopost_times,
                               Fmt02d(p.hh) \o <<":">> \o Fmt02d(p.mm))
           IN  IF ~(p.ok /\ InDayRange(p)) THEN cfg' = cfg /\ jobs' = jobs
               ELSE IF Len(times) < cfg.autopost_count
               THEN /\ cfg' = [cfg EXCEPT !.autopost_times = times,
                                          !.next = AwaitTime(cfg.next.idx + 1)]
                    /\ jobs' = jobs
                    /\ Collecting'
               ELSE /\ cfg' = [cfg EXCEPT !.autopost_times = times,
                                          !.next = Step("idle"),
                                          !.autopost_enabled = TRUE]
                    /\ Len(times) = cfg.autopost_count
                    /\ ChatJobs(jobs', CHAT) = OnePerTime(times)

\* C10: after a count n is accepted, the k-th accepted time (k < n) leads
\* to await_autopost_time(k+1) and neither enables autopost nor touches the
\* triggers; the n-th sets autopost_enabled, leads to idle, leaves the n
\* accepted times in input order and registers exactly one trigger per
\* stored time; a rejected input in between changes nothing.
C10_TimeCollection == [][C10_Step]_vars

C10_Witness ==
    /\ ev.op = "handle_text" /\ ev.arg = <<"0", ":", "0">>
    /\ cfg.autopost_enabled /\ cfg.next = Step("idle")
    /\ cfg.autopost_count = 2
    /\ cfg.autopost_times = <<Txt_2359, Txt_0000>>
    /\ jobs = OnePerTime(<<Txt_2359, Txt_0000>>)

\* The sample time strings that name a time of day.
TimeOfDayTexts == {Txt_0000, Txt_0_0}
IsTimeOfDay(t) == t \in TimeOfDayTexts

C11_Step ==
    ev'.op = "schedule_daily_jobs" =>
        LET c == ev'.arg.chat_id
            parseable == SelectSeq(ev'.arg.times, IsTimeOfDay)
        IN  /\ ChatJobs(jobs', c) =
                   [i \in 1..Len(parseable) |-> [chat_id |-> c, t |-> parseable[i]]]
            /\ \A other \in Chats \ {c} :
                   ChatJobs(jobs', other) = ChatJobs(jobs, other)

\* C11: after schedule(chat_id, times) the triggers bound to chat_id are
\* exactly one per parseable entry of times, in order, duplicates included
\* and none left from an earlier call; an unparseable entry is skipped
\* without stopping the entries after it; the triggers of every other chat
\* are unchanged.
C11_ScheduleExact == [][C11_Step]_vars

C11_Witness ==
    /\ ev.op = "schedule_daily_jobs"
    /\ ev.arg = [chat_id |-> CHAT, times |-> <<Txt_2400, Txt_0000>>]
    /\ ChatJobs(jobs, CHAT) = <<[chat_id |-> CHAT, t |-> Txt_0000]>>
    /\ ChatJobs(jobs, OTHER_CHAT) =
           <<[chat_id |-> OTHER_CHAT, t |-> Txt_0_0],
             [chat_id |-> OTHER_CHAT, t |-> Txt_0_0]>>
    /\ jobs[1].chat_id = OTHER_CHAT

\* A block that holds a client_id and a client_secret member.
HoldsIdentity(b) == b.some /\ b.client_id.key /\ b.client_secret.key
\* The three fields extraction is to return for block b.
FieldsOf(b, r) ==
    /\ r.client_id = b.client_id.val
    /\ r.client_secret = b.client_secret.val
    /\ r.token_uri = IF b.token_uri.key THEN b.token_uri.val
                     ELSE Some(OAUTH_TOKEN_URI_DEFAULT)

\* C12: extraction succeeds for every document with an "installed" or a
\* "web" block that holds client_id and client_secret, returning exactly
\* the block's client_id, client_secret and token_uri (the default when
\* absent); for every other document it fails, naming the missing field
\* (or the missing block when the document has neither block).
C12_ExtractionTotal ==
    ev.op = "extract_oauth_fields" =>
        LET j == ev.arg
            r == ev.result
            blocks == {b \in {j.installed, j.web} : HoldsIdentity(b)}
        IN  IF blocks # {}
            THEN r.ok /\ \E b \in blocks : FieldsOf(b, r)
            ELSE /\ ~r.ok
                 /\ r.err \in {"missing_client_id", "missing_client_secret",
                                "no_installed_or_web"}

\* A document whose "web" block is complete and whose "installed" block
\* holds other members only: extraction fails, naming client_id.
C12_Witness ==
    /\ ev.op = "extract_oauth_fields"
    /\ ev.arg = [installed |-> Block(Missing, Missing, Missing),
                 web |-> Block(Str(Txt_cid), Str(Txt_sec), Missing)]
    /\ ~ev.result.ok /\ ev.result.err = "missing_client_id"

\* A document refused at await_json leaves the ChatConfig as it was.
C12_RefusalKeepsConfig ==
    [][(ev'.op = "handle_document" /\ LastReply'.kind = "invalid_json")
          => cfg' = cfg /\ cfg.next = Step("await_json")]_vars

\* The handler that ran is one that calls publish_now: the publish text
\* outside the two steps that store any text, the publish_now button, or a
\* job callback.
PublishInvoked ==
    \/ ev'.op = "scheduled_post"
    \/ ev'.op = "on_button" /\ ev'.arg = "publish_now"
    \/ /\ ev'.op = "handle_text"
       /\ cfg.next \notin {Step("await_refresh"), Step("await_folder")}
       /\ Lower(Strip(ev'.arg)) \in PUBLISH_TEXTS

\* C13: a publish invocation for a chat whose folder id is not set sends
\* the not-configured reply and stops: no collaborator call is made and the
\* ChatConfig, its saved copy, the folder and the triggers are unchanged.
C13_NotConfigured ==
    [][(PublishInvoked /\ ~Truthy(cfg.drive_folder_id)) =>
          /\ ev'.calls = << >>
          /\ LastReply'.kind = "not_configured"
          /\ cfg' = cfg /\ disk' = disk /\ jobs' = jobs /\ folder' = folder]_vars

C13_Witness ==
    /\ ev.op = "on_button" /\ ev.arg = "publish_now"
    /\ LastReply.kind = "not_configured"
    /\ cfg.next = Step("await_folder")
    /\ Truthy(cfg.oauth_client_id) /\ Truthy(cfg.refresh_token)
    /\ ~Present(cfg.drive_folder_id)

\* The last handler ran a publish invocation to its success reply or to its
\* upload-failure reply.
PublishReplied == UploadCalled /\ LastReply.kind \in {"published", "upload_failed"}

\* C14: when autopost is enabled, the reply that ends a publish invocation
\* (success or failure) also reports the next scheduled time.
C14_ReplyReportsNextTime ==
    (PublishReplied /\ cfg.autopost_enabled) => "next_time" \in DOMAIN LastReply

\* A job callback publishes with autopost enabled for 23:59 and 00:00.
C14_Witness ==
    /\ ev.op = "scheduled_post"
    /\ cfg.autopost_enabled /\ cfg.autopost_times = <<Txt_2359, Txt_0000>>
    /\ LastReply = [kind |-> "published", remaining |-> Len(folder),
                    url |-> "url", video_id |-> Txt_vid]

\* C15: the /start command, in whatever step it arrives, reinstates the
\* default ChatConfig and cancels every trigger of the chat.
C15_StartResets ==
    [][ev'.op = "start" => cfg' = DefaultChat /\ ChatJobs(jobs', CHAT) = << >>]_vars

\* /start sent at await_refresh: the chat is asked for the document again
\* and stays at await_refresh, where handle_document refuses documents.
C15_Witness ==
    /\ ev.op = "start"
    /\ LastReply.kind = "setup_required"
    /\ cfg.next = Step("await_refresh")
    /\ Present(cfg.oauth_client_id)

\* No handler returns a ChatConfig that left the default to the default.
C15_NoReturnToDefault ==
    [][cfg # DefaultChat => cfg' # DefaultChat]_vars

\* C16: the upload step polls until the upload completes or 200 polls have
\* been made; an upload not complete after 200 polls gets no further poll
\* and is a failure (upload did not complete).
C16_PollCeiling ==
    UploadCalled =>
        /\ ev.upload.polls <= UPLOAD_TRIES_MAX
        /\ ev.upload.raised = "did_not_complete" =>
               /\ ev.upload.tag = "ERR"
               /\ LastReply = [kind |-> "upload_failed",
                               reason |-> "Generic did_not_complete"]

\* The upload that was not complete after 200 polls is polled once more.
C16_Witness ==
    /\ UploadCalled
    /\ ev.upload.raised = "did_not_complete"
    /\ ev.upload.polls = UPLOAD_TRIES_MAX + 1
    /\ LastReply.kind = "upload_failed"

\* The tags of the hashtag line the last format_hashtags call returned.
LineTags == IF ev.result = << >> THEN << >> ELSE Split(ev.result, " ")
Distinct(xs) == \A i, j \in 1..Len(xs) : xs[i] = xs[j] => i = j
Elems(xs) == {xs[i] : i \in 1..Len(xs)}

\* The line holds the first five trending tags, the first five contextual
\* tags, then the remaining trending and contextual tags that are not in
\* the line yet, up to ten tags in all, each as "#" and the tag without
\* its spaces.
MixedAsSpecified ==
    LET tr == ev.arg.trending
        cx == ev.arg.contextual
        head == Take(tr, 5) \o Take(cx, 5)
        rest == Drop(tr, 5) \o Drop(cx, 5)
        fresh == {i \in 1..Len(rest) :
                     /\ rest[i] \notin Elems(head)
                     /\ \A j \in 1..(i - 1) : rest[j] # rest[i]}
        room == IF Len(head) < 10 THEN 10 - Len(head) ELSE 0
        n == IF Cardinality(fresh) < room THEN Cardinality(fresh) ELSE room
        Nth(k) == CHOOSE i \in fresh : Cardinality({j \in fresh : j <= i}) = k
        expected == head \o [k \in 1..n |-> rest[Nth(k)]]
    IN  /\ LineTags = [i \in 1..Len(expected) |-> <<"#">> \o RemoveSpaces(expected[i])]
        /\ Len(LineTags) <= 10
        /\ \A i \in 1..Len(LineTags) : " " \notin Elems(LineTags[i])

\* The first five tags of both lists are pairwise distinct, and no two
\* different tags of the lists are equal once their spaces are removed.
HeadTagsDistinct ==
    LET tr == ev.arg.trending
        cx == ev.arg.contextual
        all == tr \o cx
    IN  /\ Distinct(Take(tr, 5) \o Take(cx, 5))
        /\ \A i, j \in 1..Len(all) :
               RemoveSpaces(all[i]) = RemoveSpaces(all[j]) => all[i] = all[j]

GeminiFails(g) ==
    \/ ~g.api_key
    \/ g.upload = "error"
    \/ g.get_file = "error"
    \/ g.active_at > READY_POLLS + 1
    \/ g.generate # "ok"
HashtagLine(filename) ==
    format_hashtags(TRENDING_TAGS, infer_context_tags(filename), MAX_TOTAL)
EndsWith(x, suffix) ==
    Len(x) >= Len(suffix) /\ SubSeq(x, Len(x) - Len(suffix) + 1, Len(x)) = suffix
FallbackPair(m, filename) ==
    /\ m.title = DEFAULT_TITLE
    /\ m.description = FALLBACK_DESC \o <<"\n">> \o HashtagLine(filename)
C17_Function ==
    ev.op = "generate_metadata_with_gemini" =>
        LET g == ev.arg.gemini
            f == ev.arg.filename_hint
            m == ev.result
        IN  /\ m.ok
            /\ m.title # << >>
            /\ Len(m.title) <= TITLE_MAX
            /\ EndsWith(m.description, <<"\n">> \o HashtagLine(f))
            /\ Len(m.description) > Len(HashtagLine(f)) + 1
            /\ m.polls <= READY_POLLS + 1
            /\ GeminiFails(g) => FallbackPair(m, f)
            /\ (~GeminiFails(g) /\ g.text \in {Text_unlabelled, << >>}) =>
                   /\ m.title = DEFAULT_TITLE
                   /\ m.description = DEFAULT_DESC \o <<"\n">> \o HashtagLine(f)
            /\ (~GeminiFails(g) /\ g.text = Text_title_only) =>
                   /\ m.title = <<"C", "a", "t", "s">>
                   /\ m.description = DEFAULT_DESC \o <<"\n">> \o HashtagLine(f)
            /\ (~GeminiFails(g) /\ g.text = Text_desc_only) =>
                   /\ m.title = DEFAULT_TITLE
                   /\ m.description = <<"F", "u", "n">> \o <<"\n">> \o HashtagLine(f)
            /\ (~GeminiFails(g) /\ g.text = Text_long_title) =>
                   m.title = [i \in 1..TITLE_MAX |-> "a"]
            /\ (~GeminiFails(g) /\ g.text = Text_two_colons) =>
                   /\ m.title = <<"C", "a", "t", "s", ":", " ", "2">>
                   /\ m.description = DEFAULT_DESC \o <<"\n">> \o HashtagLine(f)
            /\ (~GeminiFails(g) /\ g.text = Text_title_twice) => m.title = <<"B">>
            /\ (~GeminiFails(g) /\ g.text = Text_both) =>
                   /\ m.title = <<"C", "a", "t", "s">>
                   /\ m.description = <<"F", "u", "n">> \o <<"\n">> \o HashtagLine(f)
C17_Pipeline ==
    (ev.op = "publish_now" /\ CallsOf("generate_metadata") # {}) =>
        LET i == CHOOSE k \in CallsOf("generate_metadata") : TRUE
            file == ev.calls[i].file
        IN  /\ Len(ev.calls) > i
            /\ ev.calls[i + 1].op = "upload"
            /\ ev.calls[i + 1].file = file
            /\ ev.calls[i + 1].meta.ok
            /\ GeminiFails(ev.arg) => FallbackPair(ev.calls[i + 1].meta, FileName(file))
            /\ Len(ev.replies) = 3
            /\ ev.replies[2] = [kind |-> "uploading", title |-> ev.calls[i + 1].meta.title]
            /\ ev.replies[3].kind \in {"upload_failed", "published"}
            /\ ev.replies[3].kind = "upload_failed" <=> ev.upload.tag = "ERR"
            /\ \A k \in 1..Len(ev.replies) : ev.replies[k].kind # "publish_error"
C17_NeverFailsOutward == C17_Function /\ C17_Pipeline
\* The initial state of SpecMetadata is a state the chat reaches by its setup.
C17_SetupReached == cfg = ConfiguredChat /\ disk = ConfiguredChat /\ folder = InitFolder
\* Witness: Gemini never reported ACTIVE within the ceiling, the fallback
\* pair went to the upload and the publish ended with its success reply.
C17_Witness ==
    /\ ev.op = "publish_now"
    /\ ev.arg = Gemini_NotActive
    /\ Len(ev.calls) >= 4
    /\ ev.calls[4].meta.polls = READY_POLLS + 1
    /\ FallbackPair(ev.calls[4].meta, File_slime)
    /\ ev.replies[2] = [kind |-> "uploading", title |-> DEFAULT_TITLE]
    /\ ev.replies[3].kind = "published"

\* C19: a webhook request whose path token differs from the bot token is
\* answered 403 and leaves the update queue as it was; the queue grows only
\* by a request whose path token is the bot token, by the one update of its
\* body, put at the end.
C19_Step ==
    /\ (ev'.op = "telegram_webhook" /\ ev'.arg.token # TELEGRAM_BOT_TOKEN) =>
           /\ ev'.status = 403
           /\ update_queue' = update_queue
    /\ Len(update_queue') > Len(update_queue) =>
           /\ ev'.op = "telegram_webhook"
           /\ ev'.arg.token = TELEGRAM_BOT_TOKEN
           /\ ev'.status = 200
           /\ update_queue' = Append(update_queue, ev'.arg.body.update)
    /\ (ev'.op = "telegram_webhook" /\ ev'.status # 200) =>
           update_queue' = update_queue
C19_TokenGuardsQueue == [][C19_Step]_vars
\* Witness: a request with the bot token in lower case was answered 403
\* while an update enqueued earlier was still waiting.
C19_Witness ==
    /\ ev.op = "telegram_webhook"
    /\ ev.arg.token = Lower(TELEGRAM_BOT_TOKEN)
    /\ ev.arg.body = Body_message
    /\ ev.status = 403
    /\ update_queue = <<"callback_query">>

\* C20: every publish_now call ends with a terminal reply (not configured,
\* no videos, a failure reason or the success reply), whatever the
\* collaborators answer, provided each of their calls returns.
TerminalReplies ==
    {"not_configured", "no_videos", "publish_error", "drive_error", "upload_failed",
     "published"}
C20_Terminates ==
    <>(/\ run.pc = "done"
       /\ run.replies[Len(run.replies)] \in TerminalReplies)
\* The two loops with a ceiling stay within it, and a call that is over
\* ended with a terminal reply.
C20_CeilingsHold ==
    /\ run.pc # "none" =>
           /\ run.ready_polls <= READY_POLLS + 1
           /\ run.tries <= UPLOAD_TRIES_MAX + 1
    /\ run.pc = "done" => run.replies[Len(run.replies)] \in TerminalReplies
\* A call that never ends stays in the download loop for ever.
C20_OnlyDownloadHangs == <>(run.pc = "done") \/ <>[](run.pc = "download")
\* Witness: the download loop has made MaxChunks calls and is about to make
\* another one, no reply after the "analysing" one having been sent.
C20_Witness ==
    /\ run.pc = "download"
    /\ run.dl_polls = MaxChunks
    /\ run.replies = <<"analysing">>

\* C22: in every state the triggers bound to the chat are those of its
\* configuration: one per entry of autopost_times, in order, when
\* autopost_enabled is true, and none when it is false.
JobTimes == [i \in 1..Len(ChatJobs(jobs, CHAT)) |-> ChatJobs(jobs, CHAT)[i].t]
C22_TriggersMatchConfig ==
    IF cfg.autopost_enabled
    THEN JobTimes = cfg.autopost_times
    ELSE ChatJobs(jobs, CHAT) = << >>
\* Witness: autopost is enabled, the sub-flow was started again and the
\* count accepted, so autopost_times is empty while a trigger is registered.
C22_Witness ==
    /\ ev.op = "handle_text"
    /\ cfg.autopost_enabled
    /\ cfg.next = AwaitTime(1)
    /\ cfg.autopost_times = << >>
    /\ ChatJobs(jobs, CHAT) # << >>
\* What holds: with autopost disabled no trigger is bound to the chat, and
\* the handler that enables autopost leaves one trigger per entry.
C22_DisabledHasNone ==
    /\ ~cfg.autopost_enabled => ChatJobs(jobs, CHAT) = << >>
    /\ (ev.op = "handle_text" /\ LastReply.kind = "autopost_enabled") =>
           /\ cfg.autopost_enabled
           /\ JobTimes = cfg.autopost_times

\* C23: every state whose step is not one of the three setup steps
\* (await_json, await_refresh, await_folder) has setup_complete true.
SetupSteps == {Step("await_json"), Step("await_refresh"), Step("await_folder")}
C23_SetupBeforeFlow == cfg.next \notin SetupSteps => cfg.setup_complete
\* Witness: the autopost command was sent at the credential step; the chat
\* is in the autopost sub-flow with setup_complete false and no credential.
C23_Witness ==
    /\ ev.op = "handle_text"
    /\ ev.arg \in AUTOPOST_TEXTS
    /\ cfg.next = Step("await_times_count")
    /\ ~cfg.setup_complete
    /\ ~Truthy(cfg.oauth_json)
\* Once the step has left await_json with no credential document stored,
\* none is ever stored.
C23_Step ==
    (cfg.next # Step("await_json") /\ ~Truthy(cfg.oauth_json)) =>
        (cfg'.next # Step("await_json") /\ ~Truthy(cfg'.oauth_json))
C23_CredentialLost == [][C23_Step]_vars

\* C24: the source file is deleted only when the upload returned a video id:
\* after an upload that returned none (an "ERR:" result, or a completed
\* response without an id) delete is not called, the selected file is still
\* in the folder and the last reply is not the success reply.
C24_DeleteOnlyWithId ==
    (UploadCalled /\ ev.upload.tag # "url") =>
        /\ CallsOf("delete") = {}
        /\ InFolder(ev.calls[SelectedFile].file)
        /\ LastReply.kind # "published"
\* Witness: the upload completed with a response that carries no id, the
\* file was deleted and the success reply sent with None as its link.
C24_Witness ==
    /\ UploadCalled
    /\ ev.upload.tag = "None"
    /\ ev.upload.raised = "none"
    /\ CallsOf("delete") # {}
    /\ ~InFolder(ev.calls[SelectedFile].file)
    /\ LastReply.kind = "published"
    /\ LastReply.url = "None"
\* What holds: an "ERR:" result never deletes and never reports success.
C24_ErrorKeepsFile ==
    (UploadCalled /\ ev.upload.tag = "ERR") =>
        /\ CallsOf("delete") = {}
        /\ InFolder(ev.calls[SelectedFile].file)
        /\ LastReply.kind = "upload_failed"

StoredChat ==
    [ConfiguredChat EXCEPT !.oauth_client_id = None,
                           !.oauth_client_secret = None]

InitStored ==
    /\ cfg = StoredChat
    /\ disk = StoredChat
    /\ jobs = << >>
    /\ folder = InitFolder
    /\ update_queue = << >>
    /\ run = NoRun
    /\ ev = [op |-> "none", arg |-> << >>, calls |-> << >>, replies |-> << >>,
             upload |-> NotCalled]

SpecStored == InitStored /\ [][Next]_vars

C25_OnlyCacheDiffers ==
    disk = [cfg EXCEPT !.oauth_client_id = disk.oauth_client_id,
                       !.oauth_client_secret = disk.oauth_client_secret,
                       !.oauth_token_uri = disk.oauth_token_uri]

(***************************************************************************)
(* SpecTasks: two publish_now invocations for the same chat running as     *)
(* tasks of one event loop.  The code between two awaits runs without      *)
(* interruption, so each action is the code of one invocation from one     *)
(* awaited chat reply to the next; run[i] is the frame of invocation i:    *)
(* pc names the await it is suspended at, by the caller, file the entry    *)
(* list_first_video_in_folder returned, upload what upload_to_youtube      *)
(* returned, replies the replies sent so far.  The chat has two triggers   *)
(* registered for the same time of day.  Updates are handled one at a      *)
(* time, so at most one of the invocations comes from a handler.           *)
(***************************************************************************)
Tasks == {1, 2}
NoFile == 0
HandlerCallers == {"handle_text", "on_button"}
Callers == HandlerCallers \cup {"scheduled_post"}

TaskFrame ==
    [pc |-> "idle", by |-> "none", file |-> NoFile, upload |-> "none",
     replies |-> << >>]

\* The invocation ends with the reply of the given kind.
TaskEnds(r, kind) == [r EXCEPT !.pc = "done", !.replies = Append(@, kind)]

\* drive.files().delete on the folder: the entry with that id goes.
Remove(fld, file) == SelectSeq(fld, LAMBDA f : f # file)

InitTasks ==
    /\ cfg = [ConfiguredChat EXCEPT !.autopost_enabled = TRUE,
                                    !.autopost_count = 2,
                                    !.autopost_times = <<Txt_0000, Txt_0000>>]
    /\ disk = cfg
    /\ jobs = schedule_daily_jobs(<< >>, CHAT, <<Txt_0000, Txt_0000>>)
    /\ folder = InitFolder
    /\ update_queue = << >>
    /\ run = [i \in Tasks |-> TaskFrame]
    /\ ev = [op |-> "none", arg |-> << >>]

\* publish_now up to its first await: the folder check, build_services and
\* list_first_video_in_folder, then the reply that names the file.
PublishSelect(i) ==
    /\ run[i].pc = "idle"
    /\ \E by \in Callers, a \in {"error", "ok"} :
           /\ by \in HandlerCallers =>
                  \A j \in Tasks \ {i} :
                      run[j].by \in HandlerCallers => run[j].pc = "done"
           /\ by = "scheduled_post" => i <= Len(ChatJobs(jobs, CHAT))
           /\ LET r == [run[i] EXCEPT !.by = by]
                  sv == build_services(cfg)
              IN  IF ~Truthy(cfg.drive_folder_id)
                  THEN /\ run' = [run EXCEPT ![i] = TaskEnds(r, "not_configured")]
                       /\ cfg' = cfg
                  ELSE /\ cfg' = sv.cfg
                       /\ run' = [run EXCEPT ![i] =
                              IF ~sv.ok THEN TaskEnds(r, "publish_error")
                              ELSE IF a = "error" THEN TaskEnds(r, "drive_error")
                              ELSE IF folder = << >> THEN TaskEnds(r, "no_videos")
                              ELSE [r EXCEPT !.pc = "analysing",
                                             !.file = Head(folder),
                                             !.replies = Append(@, "analysing")]]
    /\ UNCHANGED <<disk, jobs, folder, ev, update_queue>>

\* From the first await to the second: download_drive_file of the selected
\* entry (an entry deleted meanwhile cannot be fetched) and
\* generate_metadata_with_gemini, then the reply that shows the title.
PublishFetch(i) ==
    /\ run[i].pc = "analysing"
    /\ \E a \in {"error", "done"} :
           run' = [run EXCEPT ![i] =
                      IF a = "error" \/ ~InFolder(run[i].file)
                      THEN TaskEnds(run[i], "drive_error")
                      ELSE [run[i] EXCEPT !.pc = "uploading",
                                          !.replies = Append(@, "uploading")]]
    /\ UNCHANGED <<cfg, disk, jobs, folder, ev, update_queue>>

\* From the second await to the end: upload_to_youtube of the local copy,
\* then either the failure reply or delete_drive_file (its error is logged
\* and dropped), list_videos and the published reply.
PublishUpload(i) ==
    /\ run[i].pc = "uploading"
    /\ \E up \in {"url", "None", "ERR"}, del \in {"ok", "error"},
          l \in {"ok", "error"} :
           LET r == [run[i] EXCEPT !.upload = up]
           IN  IF up = "ERR"
               THEN /\ run' = [run EXCEPT ![i] = TaskEnds(r, "upload_failed")]
                    /\ folder' = folder
               ELSE /\ folder' = IF del = "ok" THEN Remove(folder, r.file)
                                 ELSE folder
                    /\ run' = [run EXCEPT ![i] =
                           TaskEnds(r, IF l = "ok" THEN "published"
                                       ELSE "drive_error")]
    /\ UNCHANGED <<cfg, disk, jobs, ev, update_queue>>

NextTasks ==
    \E i \in Tasks : PublishSelect(i) \/ PublishFetch(i) \/ PublishUpload(i)

SpecTasks == InitTasks /\ [][NextTasks]_vars

\* C21: two publish invocations for the same chat that interleave at their
\* awaited replies never both select and upload the same source file.
C21_NoDoubleUpload ==
    \A i, j \in Tasks :
        (i # j /\ run[i].upload = "url" /\ run[j].upload = "url")
            => run[i].file # run[j].file

\* Two triggers of the same time fired, both invocations selected the
\* oldest file, uploaded it and reported the publish.
C21_Witness ==
    /\ run[1].by = "scheduled_post" /\ run[2].by = "scheduled_post"
    /\ run[1].file = Head(InitFolder) /\ run[2].file = Head(InitFolder)
    /\ run[1].upload = "url" /\ run[2].upload = "url"
    /\ run[1].replies = <<"analysing", "uploading", "published">>
    /\ run[2].replies = <<"analysing", "uploading", "published">>

\* An invocation that starts after the other one has ended with its file
\* deleted selects another file: the double upload needs the overlap.
C21_Step ==
    \A i \in Tasks, j \in Tasks :
        (/\ run[i].pc = "idle" /\ run'[i].pc = "analysing"
         /\ run[j].pc = "done" /\ run[j].file # NoFile
         /\ ~InFolder(run[j].file))
            => run'[i].file # run[j].file
C21_SequentialDiffer == [][C21_Step]_vars

\* Under Spec a chat gets two triggers of the same time of day.
C21_TwoTriggersReached ==
    /\ Len(ChatJobs(jobs, CHAT)) = 2
    /\ ChatJobs(jobs, CHAT)[1].t = ChatJobs(jobs, CHAT)[2].t

====
